---- MODULE Spec2Model ----
(***************************************************************************)
(* Model of the lens-search backend core:                                  *)
(*   - app/utils/diff_parser.py       (parse_diff and its helpers)         *)
(*   - app/utils/codebase_indexer.py  (extract_code_units)                 *)
(*   - app/services/knowledge_retriever.py (retrieve_similar_patterns)     *)
(*                                                                         *)
(* Python strings are sequences of one-character strings, so that split,   *)
(* strip, startswith, slicing and the regular expressions are computed     *)
(* character by character, as the code computes them.                      *)
(***************************************************************************)
EXTENDS Integers, Sequences, FiniteSets, TLC

VARIABLES
    pc,            \* which call is in progress and where it stands
    blocks,        \* parse_diff: the pieces the input text was assembled from
    diff_text,     \* parse_diff: its argument
    file_changes,  \* parse_diff: its return value
    source,        \* extract_code_units: the file (file_path, content, and
                   \*   what the language's parser makes of the content)
    language,      \* extract_code_units: the local variable language
    units,         \* extract_code_units: the local variable units, returned
    _ts_parsers,   \* codebase_indexer: the module-level parser cache
    events,        \* extract_code_units: the failures met during the call
    calls,         \* extract_code_units: the calls made so far
    request,       \* retrieve_similar_patterns: its arguments
    hunk_no,       \* retrieve_similar_patterns: how many hunks the loops are past
    patterns,      \* retrieve_similar_patterns: patterns as the loops fill it
    ranked,        \* retrieve_similar_patterns: patterns once sorted
    similar,       \* retrieve_similar_patterns: its return value
    external,      \* knowledge_retriever: the calls made to the
                   \*   collaborators, with what each answered
    file_no,       \* retrieve_related_files: how many files the loop is past
    related_files, \* retrieve_related_files: related_files as the loop fills it
    unique_files,  \* retrieve_related_files: its return value
    invocations,   \* concurrent calls of extract_code_units: the local
                   \*   state of each (they share _ts_parsers)
    accesses       \* which call read and which wrote _ts_parsers

diffVars == <<blocks, diff_text, file_changes>>
extractVars == <<source, language, units, _ts_parsers, events, calls>>
retrieveVars == <<request, hunk_no, patterns, ranked, similar, external>>
relatedVars == <<file_no, related_files, unique_files>>
concurrentVars == <<invocations, accesses>>
vars == <<pc, diffVars, extractVars, retrieveVars, relatedVars, concurrentVars>>

(***************************************************************************)
(* Python str primitives                                                   *)
(***************************************************************************)

\* Python's None where a str is expected (no str is equal to it: every
\* element of a str is a one-character string).
None == <<"None">>

\* The characters str.strip() removes and the regex class \s matches.
Whitespace == {" ", "\n", "\t"}

\* The characters the regex class \d matches.
Digits == {"0", "1", "2", "3", "4", "5", "6", "7", "8", "9"}

\* s[i:] for a 0-based i >= 0
SliceFrom(s, i) == SubSeq(s, i + 1, Len(s))

\* s[:n]
SliceTo(s, n) == SubSeq(s, 1, IF n < Len(s) THEN n ELSE Len(s))

\* s.startswith(p)
StartsWith(s, p) == Len(s) >= Len(p) /\ SubSeq(s, 1, Len(p)) = p

\* 1-based index of the first occurrence of p in s, 0 when there is none
\* (s.find(p) + 1)
Find(s, p) ==
    LET hits == {i \in 1..(Len(s) - Len(p) + 1) : SubSeq(s, i, i + Len(p) - 1) = p}
    IN  IF hits = {} THEN 0 ELSE CHOOSE i \in hits : \A j \in hits : i <= j

\* p in s
Contains(s, p) == Find(s, p) # 0

\* s.split(sep): never empty, pieces in order, separators removed
RECURSIVE Split(_, _)
Split(s, sep) ==
    LET i == Find(s, sep)
    IN  IF i = 0 THEN <<s>>
        ELSE <<SubSeq(s, 1, i - 1)>> \o Split(SubSeq(s, i + Len(sep), Len(s)), sep)

\* sep.join(parts)
RECURSIVE Join(_, _)
Join(parts, sep) ==
    IF parts = <<>> THEN <<>>
    ELSE IF Len(parts) = 1 THEN parts[1]
    ELSE parts[1] \o sep \o Join(Tail(parts), sep)

\* s.strip()
Strip(s) ==
    LET keep == {i \in 1..Len(s) : s[i] \notin Whitespace}
    IN  IF keep = {} THEN <<>>
        ELSE SubSeq(s, CHOOSE i \in keep : \A j \in keep : i <= j,
                       CHOOSE i \in keep : \A j \in keep : i >= j)

\* int(s) for a non-empty run of decimal digits
DigitVal(c) ==
    CASE c = "0" -> 0 [] c = "1" -> 1 [] c = "2" -> 2 [] c = "3" -> 3 [] c = "4" -> 4
      [] c = "5" -> 5 [] c = "6" -> 6 [] c = "7" -> 7 [] c = "8" -> 8 [] c = "9" -> 9

RECURSIVE ParseInt(_)
ParseInt(s) ==
    IF Len(s) = 1 THEN DigitVal(s[1])
    ELSE 10 * ParseInt(SubSeq(s, 1, Len(s) - 1)) + DigitVal(s[Len(s)])

\* The longest prefix of s made of characters of the set cs (a greedy
\* character-class repetition of a regular expression).
RunOf(s, cs) ==
    LET stop == {i \in 1..Len(s) : s[i] \notin cs}
    IN  IF stop = {} THEN s
        ELSE SubSeq(s, 1, (CHOOSE i \in stop : \A j \in stop : i <= j) - 1)

(***************************************************************************)
(* Literals of diff_parser.py                                              *)
(***************************************************************************)
NL == <<"\n">>
TAB == <<"\t">>
DIFF_GIT == <<"d", "i", "f", "f", " ", "-", "-", "g", "i", "t">>
PLUS == <<"+">>
MINUS == <<"-">>
PLUS3 == <<"+", "+", "+">>
MINUS3 == <<"-", "-", "-">>
AT2 == <<"@", "@">>
B_SLASH == <<"b", "/">>
DEV_NULL == <<"/", "d", "e", "v", "/", "n", "u", "l", "l">>

(***************************************************************************)
(* diff_parser.py                                                          *)
(***************************************************************************)

\* _parse_hunk returning None, _parse_file_section returning None
NoHunk == [none |-> TRUE]
NoFileChange == [none |-> TRUE]

\* (\d+): a non-empty greedy run of digits at the start of s
MatchNumber(s) ==
    LET g == RunOf(s, Digits)
    IN  [ok |-> g # <<>>, group |-> g, rest |-> SliceFrom(s, Len(g))]

\* (?:,(\d+))? : the optional count; the group is None when it does not take part
MatchOptCount(s) ==
    LET m == IF StartsWith(s, <<",">>) THEN MatchNumber(SliceFrom(s, 1))
             ELSE [ok |-> FALSE, group |-> <<>>, rest |-> s]
    IN  IF m.ok THEN [group |-> m.group, rest |-> m.rest]
        ELSE [group |-> None, rest |-> s]

\* re.match(r'@@ -(\d+)(?:,(\d+))? \+(\d+)(?:,(\d+))? @@', header)
MatchHunkHeader(header) ==
    LET fail == [ok |-> FALSE, g1 |-> None, g2 |-> None, g3 |-> None, g4 |-> None]
    IN  IF ~StartsWith(header, <<"@", "@", " ", "-">>) THEN fail
        ELSE LET m1 == MatchNumber(SliceFrom(header, 4))
                 m2 == MatchOptCount(m1.rest)
             IN  IF ~m1.ok \/ ~StartsWith(m2.rest, <<" ", "+">>) THEN fail
                 ELSE LET m3 == MatchNumber(SliceFrom(m2.rest, 2))
                          m4 == MatchOptCount(m3.rest)
                      IN  IF ~m3.ok \/ ~StartsWith(m4.rest, <<" ", "@", "@">>) THEN fail
                          ELSE [ok |-> TRUE, g1 |-> m1.group, g2 |-> m2.group,
                                g3 |-> m3.group, g4 |-> m4.group]

\* CountOrDefault with the default applied after the conversion
\* (int(group) or 1), which turns an explicit count of 0 into 1
CountOrDefault_ZeroIsMissing(group) ==
    IF group = None \/ group = <<>> THEN 1
    ELSE IF ParseInt(group) = 0 THEN 1 ELSE ParseInt(group)

\* int(match.group(n) or 1): a group that took part is a non-empty string,
\* which is truthy whatever its digits
CountOrDefault(group) == IF group = None \/ group = <<>> THEN 1 ELSE ParseInt(group)

\* _find_hunk_end(lines, start): 0-based index of the next line starting
\* with '@@' at or after start, len(lines) when there is none
_find_hunk_end(lines, start) ==
    LET next == {i \in start..(Len(lines) - 1) : StartsWith(lines[i + 1], AT2)}
    IN  IF next = {} THEN Len(lines) ELSE CHOOSE i \in next : \A j \in next : i <= j

\* HunkContentLines without the break of line 127: every line up to the end
\* of the section
HunkContentLines_ToSectionEnd(lines, hunk_start) ==
    SubSeq(lines, hunk_start + 1, Len(lines))

\* The lines collected into a hunk's content: the header, then every line
\* up to the next one starting with '@@'
HunkContentLines(lines, hunk_start) ==
    SubSeq(lines, hunk_start + 1, _find_hunk_end(lines, hunk_start + 1))

\* _parse_hunk(lines, hunk_start), hunk_start 0-based
_parse_hunk(lines, hunk_start) ==
    IF hunk_start >= Len(lines) THEN NoHunk
    ELSE LET header == lines[hunk_start + 1]
             match == MatchHunkHeader(header)
         IN  IF ~match.ok THEN NoHunk
             ELSE [old_start |-> ParseInt(match.g1),
                   old_lines |-> CountOrDefault(match.g2),
                   new_start |-> ParseInt(match.g3),
                   new_lines |-> CountOrDefault(match.g4),
                   content |-> Join(HunkContentLines(lines, hunk_start), NL)]

\* line[4:].strip().split('\t')[0] of the first line starting with '+++',
\* and the path it gives (None when it gives none)
PathFromMarker(line) ==
    LET path == Split(Strip(SliceFrom(line, 4)), TAB)[1]
    IN  IF StartsWith(path, B_SLASH) THEN SliceFrom(path, 2)
        ELSE IF path # DEV_NULL THEN path
        ELSE None

\* re.search(r'b/([^\s]+)', line): group(1) of the leftmost match, None
\* when the pattern matches nowhere in the line
SearchBPath(line) ==
    LET hits == {i \in 1..(Len(line) - 2) :
                    /\ SubSeq(line, i, i + 1) = B_SLASH
                    /\ line[i + 2] \notin Whitespace}
    IN  IF hits = {} THEN None
        ELSE LET i == CHOOSE k \in hits : \A j \in hits : k <= j
                 rest == SliceFrom(line, i + 1)
                 stop == {k \in 1..Len(rest) : rest[k] \in Whitespace}
             IN  IF stop = {} THEN rest
                 ELSE SubSeq(rest, 1, (CHOOSE k \in stop : \A j \in stop : k <= j) - 1)

\* The fallback loop: the first line containing 'b/' on which the pattern matches
FallbackPath(lines) ==
    LET hits == {i \in 1..Len(lines) :
                    Contains(lines[i], B_SLASH) /\ SearchBPath(lines[i]) # None}
    IN  IF hits = {} THEN None
        ELSE SearchBPath(lines[CHOOSE i \in hits : \A j \in hits : i <= j])

\* The path of a section (lines 49-71): None when the section is dropped
ResolvePath(lines) ==
    LET marks == {i \in 1..Len(lines) : StartsWith(lines[i], PLUS3)}
        marked == IF marks = {} THEN None
                  ELSE PathFromMarker(lines[CHOOSE i \in marks : \A j \in marks : i <= j])
        file_path == IF marked = None \/ marked = <<>> THEN FallbackPath(lines)
                     ELSE marked
    IN  IF file_path = None \/ file_path = <<>> \/ file_path = DEV_NULL THEN None
        ELSE file_path

\* ScanHunks leaving the loop at a line that starts with '@@' and is no
\* hunk header
RECURSIVE ScanHunks_StopsAtMalformed(_, _)
ScanHunks_StopsAtMalformed(lines, i) ==
    IF i >= Len(lines) THEN <<>>
    ELSE IF StartsWith(lines[i + 1], AT2)
         THEN LET hunk == _parse_hunk(lines, i)
              IN  IF hunk # NoHunk
                  THEN <<hunk>> \o ScanHunks_StopsAtMalformed(lines, _find_hunk_end(lines, i + 1))
                  ELSE <<>>
         ELSE ScanHunks_StopsAtMalformed(lines, i + 1)

\* The while loop over the section's lines from 0-based line i on
RECURSIVE ScanHunks(_, _)
ScanHunks(lines, i) ==
    IF i >= Len(lines) THEN <<>>
    ELSE IF StartsWith(lines[i + 1], AT2)
         THEN LET hunk == _parse_hunk(lines, i)
              IN  IF hunk # NoHunk
                  THEN <<hunk>> \o ScanHunks(lines, _find_hunk_end(lines, i + 1))
                  ELSE ScanHunks(lines, i + 1)
         ELSE ScanHunks(lines, i + 1)

\* IsAddition without the test for the '+++' marker
IsAddition_CountsMarker(line) == StartsWith(line, PLUS)

\* line.startswith('+') and not line.startswith('+++')
IsAddition(line) == StartsWith(line, PLUS) /\ ~StartsWith(line, PLUS3)

\* the elif: reached only when the line is not an addition
IsDeletion(line) ==
    ~IsAddition(line) /\ StartsWith(line, MINUS) /\ ~StartsWith(line, MINUS3)

\* What one hunk adds to additions: the lines of hunk.content.split('\n')
\* that pass the addition test
AdditionsIn(content) ==
    LET ls == Split(content, NL)
    IN  Cardinality({i \in 1..Len(ls) : IsAddition(ls[i])})

\* What one hunk adds to deletions
DeletionsIn(content) ==
    LET ls == Split(content, NL)
    IN  Cardinality({i \in 1..Len(ls) : IsDeletion(ls[i])})

\* additions after the counting loop over every hunk
RECURSIVE CountAdditions(_)
CountAdditions(hunks) ==
    IF hunks = <<>> THEN 0
    ELSE AdditionsIn(hunks[1].content) + CountAdditions(Tail(hunks))

\* deletions after the counting loop over every hunk
RECURSIVE CountDeletions(_)
CountDeletions(hunks) ==
    IF hunks = <<>> THEN 0
    ELSE DeletionsIn(hunks[1].content) + CountDeletions(Tail(hunks))

\* _parse_file_section giving up on a section in which no hunk was found
_parse_file_section_DropsHunkless(section) ==
    LET lines == Split(section, NL)
        file_path == ResolvePath(lines)
        hunks == ScanHunks(lines, 0)
    IN  IF file_path = None \/ hunks = <<>> THEN NoFileChange
        ELSE [path |-> file_path,
              additions |-> CountAdditions(hunks),
              deletions |-> CountDeletions(hunks),
              hunks |-> hunks]

\* _parse_file_section(section)
_parse_file_section(section) ==
    LET lines == Split(section, NL)
        file_path == ResolvePath(lines)
        hunks == ScanHunks(lines, 0)
    IN  IF file_path = None THEN NoFileChange
        ELSE [path |-> file_path,
              additions |-> CountAdditions(hunks),
              deletions |-> CountDeletions(hunks),
              hunks |-> hunks]

\* SectionsToParse keeping the text before the first delimiter (sections[0:])
SectionsToParse_KeepFirst(sections) == sections

\* sections[1:]
SectionsToParse(sections) == Tail(sections)

\* The for loop of parse_diff over the remaining sections
RECURSIVE ParseSections(_)
ParseSections(sections) ==
    IF sections = <<>> THEN <<>>
    ELSE IF Strip(sections[1]) = <<>> THEN ParseSections(Tail(sections))
    ELSE LET file_change == _parse_file_section(sections[1])
         IN  IF file_change # NoFileChange
             THEN <<file_change>> \o ParseSections(Tail(sections))
             ELSE ParseSections(Tail(sections))

\* parse_diff(diff_text)
parse_diff(text) ==
    IF text = <<>> \/ Strip(text) = <<>> THEN <<>>
    ELSE ParseSections(SectionsToParse(Split(text, DIFF_GIT)))

(***************************************************************************)
(* Inputs of parse_diff: texts assembled from the pieces of unified diffs  *)
(***************************************************************************)

\* How many pieces one input text is assembled from, at most
MaxBlocks == 3

\* str(n) for n >= 0
RECURSIVE FormatInt(_)
FormatInt(n) ==
    LET d == <<"0", "1", "2", "3", "4", "5", "6", "7", "8", "9">>[(n % 10) + 1]
    IN  IF n < 10 THEN <<d>> ELSE FormatInt(n \div 10) \o <<d>>

\* The hunk headers of the inputs: -a[,b] +c[,d]; a count is <<>> when the
\* header omits it
HunkHeaders ==
    { [a |-> 1, b |-> <<3>>, c |-> 1, d |-> <<5>>],
      [a |-> 5, b |-> <<>>, c |-> 7, d |-> <<>>],
      [a |-> 10, b |-> <<0>>, c |-> 12, d |-> <<>>] }

\* The header line '@@ -a[,b] +c[,d] @@' of hd
HeaderText(hd) ==
    <<"@", "@", " ", "-">> \o FormatInt(hd.a)
      \o (IF hd.b = <<>> THEN <<>> ELSE <<",">> \o FormatInt(hd.b[1]))
      \o <<" ", "+">> \o FormatInt(hd.c)
      \o (IF hd.d = <<>> THEN <<>> ELSE <<",">> \o FormatInt(hd.d[1]))
      \o <<" ", "@", "@">>

\* a modified file: ' a/x b/x', '--- a/x', '+++ b/x'
HEAD_MODIFY ==
    <<" ", "a", "/", "x", " ", "b", "/", "x", "\n", "-", "-", "-", " ", "a",
      "/", "x", "\n", "+", "+", "+", " ", "b", "/", "x">>

\* a deleted file: ' a/b/file.py b/b/file.py', '--- a/b/file.py', '+++ /dev/null'
HEAD_DELETE ==
    <<" ", "a", "/", "b", "/", "f", "i", "l", "e", ".", "p", "y", " ", "b",
      "/", "b", "/", "f", "i", "l", "e", ".", "p", "y", "\n", "-", "-", "-",
      " ", "a", "/", "b", "/", "f", "i", "l", "e", ".", "p", "y", "\n", "+",
      "+", "+", " ", "/", "d", "e", "v", "/", "n", "u", "l", "l">>

\* a rename without content change: ' a/x b/y', no marker lines
HEAD_RENAME ==
    <<" ", "a", "/", "x", " ", "b", "/", "y">>

\* no path anywhere: ' q', '+++ /dev/null'
HEAD_NOPATH ==
    <<" ", "q", "\n", "+", "+", "+", " ", "/", "d", "e", "v", "/", "n", "u",
      "l", "l">>

\* two added lines and a context line
BODY_ADD2 ==
    <<"\n", "+", "p", "\n", "+", "q", "\n", " ", "c">>

\* one removed and one added line
BODY_DEL_ADD ==
    <<"\n", "-", "p", "\n", "+", "q">>

\* text after the header, then '+++', '---' and '-' as content lines
BODY_MARKERS ==
    <<" ", "f", "n", "\n", "+", "+", "+", "\n", "-", "-", "-", "\n", "-">>

\* a line starting with '@@' that is no hunk header, then '+m'
BAD_HEADER ==
    <<"@", "@", " ", "b", "a", "d", "\n", "+", "m">>

\* two spaces
BLANK ==
    <<" ", " ">>

\* an added line holding the delimiter: '+j diff --git b/z'
INLINE_DELIM ==
    <<"+", "j", " ", "d", "i", "f", "f", " ", "-", "-", "g", "i", "t", " ",
      "b", "/", "z">>

\* a marker line with a tab-separated suffix: '+++ b/w<TAB>1'
MARKER_TAB ==
    <<"+", "+", "+", " ", "b", "/", "w", "\t", "1">>

\* The pieces: file headers, hunks, and lines that are neither
BlockPool ==
    { DIFF_GIT \o HEAD_MODIFY, DIFF_GIT \o HEAD_DELETE, DIFF_GIT \o HEAD_RENAME,
      DIFF_GIT \o HEAD_NOPATH,
      HeaderText([a |-> 1, b |-> <<3>>, c |-> 1, d |-> <<5>>]) \o BODY_ADD2,
      HeaderText([a |-> 5, b |-> <<>>, c |-> 7, d |-> <<>>]) \o BODY_DEL_ADD,
      HeaderText([a |-> 10, b |-> <<0>>, c |-> 12, d |-> <<>>]) \o BODY_MARKERS,
      BAD_HEADER, BLANK, INLINE_DELIM, MARKER_TAB }

\* Every sequence of at most n pieces
RECURSIVE BlockSeqs(_)
BlockSeqs(n) ==
    IF n = 0 THEN {<<>>}
    ELSE LET shorter == BlockSeqs(n - 1)
         IN  shorter \cup {Append(bs, b) : bs \in shorter, b \in BlockPool}

(***************************************************************************)
(* A call of parse_diff                                                    *)
(***************************************************************************)

\* No concurrent calls of extract_code_units are in progress or were made
ConcurrentIdle ==
    /\ invocations = <<>>
    /\ accesses = {}

\* No call of retrieve_related_files is in progress or was made
RelatedIdle ==
    /\ file_no = 0
    /\ related_files = <<>>
    /\ unique_files = <<>>

\* No call of retrieve_similar_patterns is in progress or was made
RetrieveIdle ==
    /\ request = [file_changes |-> <<>>, top_k |-> 0, similarity_threshold |-> 0,
                  gemini_api_key |-> None]
    /\ hunk_no = 0
    /\ patterns = <<>>
    /\ ranked = <<>>
    /\ similar = <<>>
    /\ external = <<>>

\* No call of extract_code_units is in progress or was made
ExtractIdle ==
    /\ source = [path |-> <<>>, content |-> <<>>, ast |-> [raises |-> FALSE, nodes |-> <<>>],
                 captures |-> <<>>]
    /\ language = None
    /\ units = <<>>
    /\ _ts_parsers = {}
    /\ events = {}
    /\ calls = 0

InitDiff ==
    /\ pc = "parse_diff"
    /\ blocks \in BlockSeqs(MaxBlocks)
    /\ diff_text = Join(blocks, NL)
    /\ file_changes = <<>>
    /\ ExtractIdle
    /\ RetrieveIdle
    /\ RelatedIdle
    /\ ConcurrentIdle

ParseDiff ==
    /\ pc = "parse_diff"
    /\ file_changes' = parse_diff(diff_text)
    /\ pc' = "returned"
    /\ UNCHANGED <<blocks, diff_text, extractVars, retrieveVars, relatedVars, concurrentVars>>

NextDiff == ParseDiff

SpecDiff == InitDiff /\ [][NextDiff]_vars

(***************************************************************************)
(* Claims about parse_diff                                                 *)
(***************************************************************************)

\* The `diff --git`-delimited sections of the input: what follows each
\* occurrence of the delimiter, up to the next one
DelimitedSections == Tail(Split(diff_text, DIFF_GIT))

\* The text before the first delimiter
BeforeFirstDelimiter == Split(diff_text, DIFF_GIT)[1]

\* The sections whose path resolves to a path, in source order
ResolvableSections ==
    SelectSeq(DelimitedSections, LAMBDA sec : ResolvePath(Split(sec, NL)) # None)

\* C1: parse_diff returns, in source order, exactly one FileChange for each
\* `diff --git`-delimited section whose path resolves to a non-null path, and
\* nothing else; the text before the first delimiter gives no FileChange, and
\* an input without delimiter (empty and blank inputs included) gives [].
C1_OneFileChangePerResolvableSection ==
    pc = "returned" =>
        /\ Len(file_changes) = Len(ResolvableSections)
        /\ \A k \in 1..Len(file_changes) :
              /\ file_changes[k] = _parse_file_section(ResolvableSections[k])
              /\ file_changes[k].path = ResolvePath(Split(ResolvableSections[k], NL))
        /\ (~Contains(diff_text, DIFF_GIT) => file_changes = <<>>)

\* C1 witness: parse_diff has returned FileChanges for an input in which a
\* section is dropped and the text before the first delimiter holds a
\* marker line that would resolve to a path.
C1_Witness ==
    /\ pc = "returned"
    /\ Len(file_changes) >= 1
    /\ Len(DelimitedSections) > Len(file_changes)
    /\ ResolvePath(Split(BeforeFirstDelimiter, NL)) # None

\* A section of a deleted file: its header line names a/b/file.py and
\* b/b/file.py and its new-file marker is '+++ /dev/null'
IsDeletionOnlySection(sec) ==
    LET lines == Split(sec, NL)
        marks == {i \in 1..Len(lines) : StartsWith(lines[i], PLUS3)}
    IN  /\ lines[1] = Split(HEAD_DELETE, NL)[1]
        /\ marks # {}
        /\ lines[CHOOSE i \in marks : \A j \in marks : i <= j] = PLUS3 \o <<" ">> \o DEV_NULL

\* C2: a deletion-only section (header `diff --git a/b/file.py b/b/file.py`,
\* new-file marker `+++ /dev/null`) is dropped: an input made of such
\* sections only gives no FileChange at all.
C2_DeletionOnlySectionDropped ==
    (/\ pc = "returned"
     /\ DelimitedSections # <<>>
     /\ \A k \in 1..Len(DelimitedSections) : IsDeletionOnlySection(DelimitedSections[k]))
        => file_changes = <<>>

\* The (hunk, line) places of a FileChange whose line starts with the
\* one-character sign but not with the sign three times
SignedLines(fc, sign) ==
    {pl \in UNION {{<<h, i>> : i \in 1..Len(Split(fc.hunks[h].content, NL))} :
                      h \in 1..Len(fc.hunks)} :
        LET line == Split(fc.hunks[pl[1]].content, NL)[pl[2]]
        IN  /\ Len(line) >= 1
            /\ line[1] = sign
            /\ ~(Len(line) >= 3 /\ line[2] = sign /\ line[3] = sign)}

\* C3: for every FileChange returned, additions is the number of lines, over
\* the content of all its hunks, that start with `+` but not with `+++`, and
\* deletions the number of lines that start with `-` but not with `---`.
C3_CountsMatchHunkContent ==
    pc = "returned" =>
        \A k \in 1..Len(file_changes) :
            /\ file_changes[k].additions = Cardinality(SignedLines(file_changes[k], "+"))
            /\ file_changes[k].deletions = Cardinality(SignedLines(file_changes[k], "-"))

\* C3 witness: a returned FileChange with counted additions and deletions
\* whose hunks also hold a `+++` and a `---` line.
C3_Witness ==
    /\ pc = "returned"
    /\ \E k \in 1..Len(file_changes) :
          /\ file_changes[k].additions >= 1
          /\ file_changes[k].deletions >= 2
          /\ \E h \in 1..Len(file_changes[k].hunks) :
                LET ls == Split(file_changes[k].hunks[h].content, NL)
                IN  (\E i \in 1..Len(ls) : ls[i] = PLUS3) /\ (\E i \in 1..Len(ls) : ls[i] = MINUS3)

\* The four numbers a hunk header stands for, an omitted count taken as 1
HeaderNumbers(hd) ==
    <<hd.a, IF hd.b = <<>> THEN 1 ELSE hd.b[1], hd.c, IF hd.d = <<>> THEN 1 ELSE hd.d[1]>>

\* The lines of a section that begin with a well-formed hunk header
HeaderLines(sec) ==
    LET lines == Split(sec, NL)
    IN  {i \in 1..Len(lines) : \E hd \in HunkHeaders : StartsWith(lines[i], HeaderText(hd))}

\* C10: for every hunk header line `@@ -<a>[,<b>] +<c>[,<d>] @@` the emitted
\* DiffHunk has old_start = a, old_lines = b, new_start = c, new_lines = d,
\* an omitted count taken as 1; every such line of an emitted section gives
\* a DiffHunk.
C10_HunkHeaderNumbers ==
    pc = "returned" =>
        /\ \A k \in 1..Len(file_changes) : \A h \in 1..Len(file_changes[k].hunks) :
              LET hunk == file_changes[k].hunks[h]
                  header == Split(hunk.content, NL)[1]
              IN  /\ \E hd \in HunkHeaders : StartsWith(header, HeaderText(hd))
                  /\ \A hd \in HunkHeaders :
                        StartsWith(header, HeaderText(hd)) =>
                            <<hunk.old_start, hunk.old_lines, hunk.new_start, hunk.new_lines>>
                                = HeaderNumbers(hd)
        /\ Len(file_changes) = Len(ResolvableSections)
        /\ \A k \in 1..Len(file_changes) :
              Len(file_changes[k].hunks) = Cardinality(HeaderLines(ResolvableSections[k]))

\* C10 witness: one FileChange holds the hunk of `@@ -1,3 +1,5 @@` and the
\* hunk of `@@ -5 +7 @@`, the latter with both counts 1.
C10_Witness ==
    /\ pc = "returned"
    /\ \E k \in 1..Len(file_changes) :
          \E h1, h2 \in 1..Len(file_changes[k].hunks) :
              LET x == file_changes[k].hunks[h1]
                  y == file_changes[k].hunks[h2]
              IN  /\ <<x.old_start, x.old_lines, x.new_start, x.new_lines>> = <<1, 3, 1, 5>>
                  /\ <<y.old_start, y.old_lines, y.new_start, y.new_lines>> = <<5, 1, 7, 1>>
                  /\ StartsWith(y.content, <<"@", "@", " ", "-", "5", " ", "+", "7", " ", "@", "@">>)

(***************************************************************************)
(* codebase_indexer.py: language detection                                 *)
(***************************************************************************)

\* s.endswith(p)
EndsWith(s, p) == Len(s) >= Len(p) /\ SubSeq(s, Len(s) - Len(p) + 1, Len(s)) = p

\* c.lower() for one character
LowerChar(c) ==
    CASE c = "C" -> "c" [] c = "G" -> "g" [] c = "J" -> "j" [] c = "M" -> "m"
      [] c = "P" -> "p" [] c = "S" -> "s" [] c = "T" -> "t" [] OTHER -> c

\* s.lower()
Lower(s) == [i \in 1..Len(s) |-> LowerChar(s[i])]

\* The language names extract_code_units compares with
PYTHON == <<"p", "y", "t", "h", "o", "n">>
JAVASCRIPT == <<"j", "a", "v", "a", "s", "c", "r", "i", "p", "t">>
TYPESCRIPT == <<"t", "y", "p", "e", "s", "c", "r", "i", "p", "t">>
JAVA == <<"j", "a", "v", "a">>
CPP == <<"c", "p", "p">>
CPLUSPLUS == <<"c", "+", "+">>
GO == <<"g", "o">>

\* What pygments' get_lexer_for_filename gives for a file name: the name of
\* the lexer registered for its extension, or the ClassNotFound exception
LEXER_PYTHON == <<"P", "y", "t", "h", "o", "n">>
LEXER_JAVASCRIPT == <<"J", "a", "v", "a", "S", "c", "r", "i", "p", "t">>
LEXER_TYPESCRIPT == <<"T", "y", "p", "e", "S", "c", "r", "i", "p", "t">>
LEXER_JAVA == <<"J", "a", "v", "a">>
LEXER_CPP == <<"C", "+", "+">>
LEXER_GO == <<"G", "o">>
LEXER_MARKDOWN == <<"M", "a", "r", "k", "d", "o", "w", "n">>

LexerForFilename(path) ==
    CASE EndsWith(path, <<".", "p", "y">>) -> [raises |-> "none", name |-> LEXER_PYTHON]
      [] EndsWith(path, <<".", "j", "s">>) -> [raises |-> "none", name |-> LEXER_JAVASCRIPT]
      [] EndsWith(path, <<".", "t", "s">>) -> [raises |-> "none", name |-> LEXER_TYPESCRIPT]
      [] EndsWith(path, <<".", "j", "a", "v", "a">>) -> [raises |-> "none", name |-> LEXER_JAVA]
      [] EndsWith(path, <<".", "c", "p", "p">>) -> [raises |-> "none", name |-> LEXER_CPP]
      [] EndsWith(path, <<".", "g", "o">>) -> [raises |-> "none", name |-> LEXER_GO]
      [] EndsWith(path, <<".", "m", "d">>) -> [raises |-> "none", name |-> LEXER_MARKDOWN]
      [] OTHER -> [raises |-> "ClassNotFound", name |-> None]

\* The ways a call of get_lexer_for_filename can end: its answer for the
\* file name, or an exception of another class raised inside the library
LexerOutcomes(path) == {LexerForFilename(path), [raises |-> "Exception", name |-> None]}

\* detect_language_from_path(file_path), given how the lexer lookup ended:
\* only ClassNotFound is caught; any other exception leaves the function
detect_language_from_path(lexer) ==
    IF lexer.raises = "none" THEN [raised |-> FALSE, value |-> Lower(lexer.name)]
    ELSE IF lexer.raises = "ClassNotFound" THEN [raised |-> FALSE, value |-> None]
    ELSE [raised |-> TRUE, value |-> None]

\* The languages handed to extract_treesitter_units
TreeSitterLanguages == {JAVASCRIPT, TYPESCRIPT, JAVA, CPP, CPLUSPLUS, GO}

\* Normalize c++ to cpp
NormalizeLanguage(lang) == IF lang = CPLUSPLUS THEN CPP ELSE lang

(***************************************************************************)
(* codebase_indexer.py: extraction of code units                           *)
(***************************************************************************)

\* Path(file_path).name: the last component of the path
BaseName(path) == LET parts == Split(path, <<"/">>) IN parts[Len(parts)]

\* '\n'.join(content.split('\n')[start_line-1:end_line])
LinesOf(content, start_line, end_line) ==
    LET lines == Split(content, NL)
        last == IF end_line < Len(lines) THEN end_line ELSE Len(lines)
    IN  Join(SubSeq(lines, start_line, last), NL)

\* The unit appended for a FunctionDef or ClassDef node
PythonUnit(content, node, type) ==
    [code |-> LinesOf(content, node.lineno, node.end_lineno),
     type |-> type,
     name |-> node.name,
     line_start |-> node.lineno,
     line_end |-> node.end_lineno]

\* The loop over ast.walk(tree): isinstance(node, ast.FunctionDef), then
\* isinstance(node, ast.ClassDef); ast.AsyncFunctionDef is a class of its own
RECURSIVE WalkUnits(_, _)
WalkUnits(content, nodes) ==
    IF nodes = <<>> THEN <<>>
    ELSE (IF nodes[1].type = "FunctionDef" THEN <<PythonUnit(content, nodes[1], "function")>>
          ELSE IF nodes[1].type = "ClassDef" THEN <<PythonUnit(content, nodes[1], "class")>>
          ELSE <<>>) \o WalkUnits(content, Tail(nodes))

\* extract_python_units(file_path, content), given what ast.parse(content)
\* does: a SyntaxError (or any exception) leaves units empty
extract_python_units(content, ast) ==
    IF ast.raises THEN <<>> ELSE WalkUnits(content, ast.nodes)

\* _get_treesitter_parser(language), given the cache and how the import and
\* Parser(lang) end when they are reached: whether a parser is returned, and
\* the cache afterwards
_get_treesitter_parser(lang, cache, init) ==
    IF lang \in cache THEN [parser |-> TRUE, cache |-> cache]
    ELSE IF lang \notin {JAVASCRIPT, TYPESCRIPT, JAVA, CPP, CPLUSPLUS, GO}
         THEN [parser |-> FALSE, cache |-> cache]
    ELSE IF init # "ok" THEN [parser |-> FALSE, cache |-> cache]
    ELSE [parser |-> TRUE, cache |-> cache \cup {lang}]

\* The languages with an entry in queries
QueryLanguages == {JAVASCRIPT, TYPESCRIPT, JAVA, CPP, GO}

\* node_info after one more (node, capture_name) pair; the entries are kept
\* in insertion order, keyed by id(node)
RecordCapture(node_info, cap) ==
    LET known == {k \in 1..Len(node_info) : node_info[k].id = cap.node.id}
        info == IF known = {}
                THEN Append(node_info, [id |-> cap.node.id, node |-> cap.node,
                                        name |-> None, type |-> "None"])
                ELSE node_info
        k == IF known = {} THEN Len(info) ELSE CHOOSE j \in known : TRUE
    IN  IF cap.capture = "name" THEN [info EXCEPT ![k].name = cap.node.text]
        ELSE IF cap.capture \in {"func", "class", "interface", "type"}
             THEN [info EXCEPT ![k].type = cap.capture]
        ELSE info

\* node_info after the loop over captures
RECURSIVE BuildNodeInfo(_, _)
BuildNodeInfo(captures, node_info) ==
    IF captures = <<>> THEN node_info
    ELSE BuildNodeInfo(Tail(captures), RecordCapture(node_info, captures[1]))

\* The unit appended for an entry of node_info with a name and a type
TreeSitterUnit(content, info) ==
    [code |-> SubSeq(content, info.node.start_byte + 1,
                     IF info.node.end_byte < Len(content) THEN info.node.end_byte
                     ELSE Len(content)),
     type |-> IF info.type = "func" THEN "function" ELSE info.type,
     name |-> info.name,
     line_start |-> info.node.start_row + 1,
     line_end |-> info.node.end_row + 1]

\* EmitUnits without the test of the name: an entry with a type is emitted
RECURSIVE EmitUnits_KindOnly(_, _)
EmitUnits_KindOnly(content, node_info) ==
    IF node_info = <<>> THEN <<>>
    ELSE (IF node_info[1].type = "None" THEN <<>>
          ELSE <<TreeSitterUnit(content, node_info[1])>>)
         \o EmitUnits_KindOnly(content, Tail(node_info))

\* The loop over node_info.items(): entries without type or name are skipped
RECURSIVE EmitUnits(_, _)
EmitUnits(content, node_info) ==
    IF node_info = <<>> THEN <<>>
    ELSE (IF node_info[1].type = "None" \/ node_info[1].name = None \/ node_info[1].name = <<>>
          THEN <<>>
          ELSE <<TreeSitterUnit(content, node_info[1])>>) \o EmitUnits(content, Tail(node_info))

\* extract_treesitter_units(file_path, content, language), given whether a
\* parser was obtained, how parser.parse and the query end, and the captures
\* query.captures(root_node) returns
extract_treesitter_units(content, lang, parser, env, captures) ==
    IF ~parser THEN <<>>
    ELSE IF env.parse # "ok" THEN <<>>
    ELSE IF lang \notin QueryLanguages THEN <<>>
    ELSE IF env.query # "ok" THEN <<>>
    ELSE EmitUnits(content, BuildNodeInfo(captures, <<>>))

\* FileUnit named by the whole path
FileUnit_FullPath(path, content) == [code |-> content, type |-> "file", name |-> path]

\* The whole-file unit
FileUnit(path, content) == [code |-> content, type |-> "file", name |-> BaseName(path)]

\* NeedsFallback taken only for a language without structural extraction
NeedsFallback_UnsupportedOnly(lang, us) ==
    us = <<>> /\ lang \notin {PYTHON} \cup TreeSitterLanguages

\* if not units: the fallback to the whole file is taken
NeedsFallback(lang, us) == us = <<>>

\* OuterHandlerCatches for a handler written `except ClassNotFound`
OuterHandlerCatches_ClassNotFoundOnly(exc) == exc = "ClassNotFound"

\* except Exception: the classes of exception the outer handler catches
OuterHandlerCatches(exc) == exc \in {"ClassNotFound", "Exception"}

(***************************************************************************)
(* Calls of extract_code_units                                             *)
(***************************************************************************)

\* How many calls of extract_code_units one run makes, at most
MaxCalls == 2

\* The files: path and content, with what ast.parse does on the content
\* (ast: the nodes in ast.walk order, or the SyntaxError) and what the
\* language's tree-sitter query captures in it (captures: the declaration
\* node under its kind, then its identifier child under "name", each
\* capture a Node object of its own)
SourceFiles ==
    { [path |-> <<"a", ".", "p", "y">>,
       content |-> <<"d", "e", "f", " ", "f", "(", ")", ":", "\n", " ", " ", "p", "a", "s", "s">>,
       ast |-> [raises |-> FALSE,
         nodes |-> <<[type |-> "Module", name |-> None, lineno |-> 0, end_lineno |-> 0],
                     [type |-> "FunctionDef", name |-> <<"f">>, lineno |-> 1, end_lineno |-> 2],
                     [type |-> "arguments", name |-> None, lineno |-> 0, end_lineno |-> 0],
                     [type |-> "Pass", name |-> None, lineno |-> 2, end_lineno |-> 2]>>],
       captures |-> <<>>],
      [path |-> <<"a", ".", "p", "y">>,
       content |-> <<"d", "e", "f", " ", "(">>,
       ast |-> [raises |-> TRUE, nodes |-> <<>>],
       captures |-> <<>>],
      [path |-> <<"a", ".", "p", "y">>,
       content |-> <<"x", " ", "=", " ", "1">>,
       ast |-> [raises |-> FALSE,
         nodes |-> <<[type |-> "Module", name |-> None, lineno |-> 0, end_lineno |-> 0],
                     [type |-> "Assign", name |-> None, lineno |-> 1, end_lineno |-> 1],
                     [type |-> "Name", name |-> None, lineno |-> 1, end_lineno |-> 1],
                     [type |-> "Constant", name |-> None, lineno |-> 1, end_lineno |-> 1],
                     [type |-> "Store", name |-> None, lineno |-> 0, end_lineno |-> 0]>>],
       captures |-> <<>>],
      [path |-> <<"d", "/", "m", ".", "p", "y">>,
       content |-> <<"c", "l", "a", "s", "s", " ", "C", ":", "\n", " ", "a", "s", "y", "n", "c", " ", "d", "e", "f", " ", "g", "(", ")", ":", " ", "p", "a", "s", "s", "\n", " ", "d", "e", "f", " ", "h", "(", ")", ":", " ", "p", "a", "s", "s">>,
       ast |-> [raises |-> FALSE,
         nodes |-> <<[type |-> "Module", name |-> None, lineno |-> 0, end_lineno |-> 0],
                     [type |-> "ClassDef", name |-> <<"C">>, lineno |-> 1, end_lineno |-> 3],
                     [type |-> "AsyncFunctionDef", name |-> <<"g">>, lineno |-> 2, end_lineno |-> 2],
                     [type |-> "FunctionDef", name |-> <<"h">>, lineno |-> 3, end_lineno |-> 3],
                     [type |-> "arguments", name |-> None, lineno |-> 0, end_lineno |-> 0],
                     [type |-> "Pass", name |-> None, lineno |-> 2, end_lineno |-> 2],
                     [type |-> "arguments", name |-> None, lineno |-> 0, end_lineno |-> 0],
                     [type |-> "Pass", name |-> None, lineno |-> 3, end_lineno |-> 3]>>],
       captures |-> <<>>],
      [path |-> <<"a", ".", "p", "y">>,
       content |-> <<" ", " ", "\n">>,
       ast |-> [raises |-> FALSE, nodes |-> <<>>],
       captures |-> <<>>],
      [path |-> <<"b", ".", "j", "s">>,
       content |-> <<"f", "u", "n", "c", "t", "i", "o", "n", " ", "f", "(", ")", "{", "}">>,
       ast |-> [raises |-> FALSE, nodes |-> <<>>],
       captures |-> <<[node |-> [id |-> 1, text |-> <<"f", "u", "n", "c", "t", "i", "o", "n", " ", "f", "(", ")", "{", "}">>, start_byte |-> 0, end_byte |-> 14,
                              start_row |-> 0, end_row |-> 0], capture |-> "func"],
                    [node |-> [id |-> 2, text |-> <<"f">>, start_byte |-> 9, end_byte |-> 10,
                              start_row |-> 0, end_row |-> 0], capture |-> "name"]>>],
      [path |-> <<"b", ".", "j", "s">>,
       content |-> <<"(", "(", "(">>,
       ast |-> [raises |-> FALSE, nodes |-> <<>>],
       captures |-> <<>>],
      [path |-> <<"b", ".", "j", "s">>,
       content |-> <<>>,
       ast |-> [raises |-> FALSE, nodes |-> <<>>],
       captures |-> <<>>],
      [path |-> <<"c", ".", "t", "s">>,
       content |-> <<"i", "n", "t", "e", "r", "f", "a", "c", "e", " ", "I", "{", "}">>,
       ast |-> [raises |-> FALSE, nodes |-> <<>>],
       captures |-> <<[node |-> [id |-> 1, text |-> <<"i", "n", "t", "e", "r", "f", "a", "c", "e", " ", "I", "{", "}">>, start_byte |-> 0, end_byte |-> 13,
                              start_row |-> 0, end_row |-> 0], capture |-> "interface"],
                    [node |-> [id |-> 2, text |-> <<"I">>, start_byte |-> 10, end_byte |-> 11,
                              start_row |-> 0, end_row |-> 0], capture |-> "name"]>>],
      [path |-> <<"c", ".", "t", "s">>,
       content |-> <<"(", "(", "(">>,
       ast |-> [raises |-> FALSE, nodes |-> <<>>],
       captures |-> <<>>],
      [path |-> <<"D", ".", "j", "a", "v", "a">>,
       content |-> <<"c", "l", "a", "s", "s", " ", "C", "{", "}">>,
       ast |-> [raises |-> FALSE, nodes |-> <<>>],
       captures |-> <<[node |-> [id |-> 1, text |-> <<"c", "l", "a", "s", "s", " ", "C", "{", "}">>, start_byte |-> 0, end_byte |-> 9,
                              start_row |-> 0, end_row |-> 0], capture |-> "class"],
                    [node |-> [id |-> 2, text |-> <<"C">>, start_byte |-> 6, end_byte |-> 7,
                              start_row |-> 0, end_row |-> 0], capture |-> "name"]>>],
      [path |-> <<"D", ".", "j", "a", "v", "a">>,
       content |-> <<"(", "(", "(">>,
       ast |-> [raises |-> FALSE, nodes |-> <<>>],
       captures |-> <<>>],
      [path |-> <<"e", ".", "c", "p", "p">>,
       content |-> <<"c", "l", "a", "s", "s", " ", "C", "{", "}", ";">>,
       ast |-> [raises |-> FALSE, nodes |-> <<>>],
       captures |-> <<[node |-> [id |-> 1, text |-> <<"c", "l", "a", "s", "s", " ", "C", "{", "}", ";">>, start_byte |-> 0, end_byte |-> 10,
                              start_row |-> 0, end_row |-> 0], capture |-> "class"],
                    [node |-> [id |-> 2, text |-> <<"C">>, start_byte |-> 6, end_byte |-> 7,
                              start_row |-> 0, end_row |-> 0], capture |-> "name"]>>],
      [path |-> <<"e", ".", "c", "p", "p">>,
       content |-> <<"(", "(", "(">>,
       ast |-> [raises |-> FALSE, nodes |-> <<>>],
       captures |-> <<>>],
      [path |-> <<"f", ".", "g", "o">>,
       content |-> <<"f", "u", "n", "c", " ", "f", "(", ")", "{", "}">>,
       ast |-> [raises |-> FALSE, nodes |-> <<>>],
       captures |-> <<[node |-> [id |-> 1, text |-> <<"f", "u", "n", "c", " ", "f", "(", ")", "{", "}">>, start_byte |-> 0, end_byte |-> 10,
                              start_row |-> 0, end_row |-> 0], capture |-> "func"],
                    [node |-> [id |-> 2, text |-> <<"f">>, start_byte |-> 5, end_byte |-> 6,
                              start_row |-> 0, end_row |-> 0], capture |-> "name"]>>],
      [path |-> <<"f", ".", "g", "o">>,
       content |-> <<"(", "(", "(">>,
       ast |-> [raises |-> FALSE, nodes |-> <<>>],
       captures |-> <<>>],
      [path |-> <<"R", "E", "A", "D", "M", "E", ".", "m", "d">>,
       content |-> <<"#", " ", "h", "i">>,
       ast |-> [raises |-> FALSE, nodes |-> <<>>],
       captures |-> <<>>],
      [path |-> <<"L", "I", "C", "E", "N", "S", "E">>,
       content |-> <<"M", "I", "T">>,
       ast |-> [raises |-> FALSE, nodes |-> <<>>],
       captures |-> <<>>],
      [path |-> <<"L", "I", "C", "E", "N", "S", "E">>,
       content |-> <<" ">>,
       ast |-> [raises |-> FALSE, nodes |-> <<>>],
       captures |-> <<>>] }

\* No call of parse_diff is in progress or was made
DiffIdle ==
    /\ blocks = <<>>
    /\ diff_text = <<>>
    /\ file_changes = <<>>

InitExtract ==
    /\ pc = "extract_code_units"
    /\ source \in SourceFiles
    /\ language = None
    /\ units = <<>>
    /\ _ts_parsers = {}
    /\ events = {}
    /\ calls = 1
    /\ DiffIdle
    /\ RetrieveIdle
    /\ RelatedIdle
    /\ ConcurrentIdle

\* Lines 298-302: units = [] and the test of content.strip()
ExtractBegin ==
    /\ pc = "extract_code_units"
    /\ pc' = IF Strip(source.content) = <<>> THEN "extracted" ELSE "detect_language"
    /\ UNCHANGED <<diffVars, concurrentVars, relatedVars, retrieveVars, extractVars>>

\* Line 304: language = detect_language_from_path(file_path); an exception
\* leaving it is caught by the outer handler, if that handler catches it
DetectLanguage ==
    /\ pc = "detect_language"
    /\ \E lexer \in LexerOutcomes(source.path) :
          LET got == detect_language_from_path(lexer)
          IN  /\ language' = got.value
              /\ events' = IF lexer.raises = "none" THEN events
                           ELSE events \cup {<<"get_lexer_for_filename", lexer.raises>>}
              /\ pc' = IF ~got.raised THEN "dispatch"
                       ELSE IF OuterHandlerCatches(lexer.raises) THEN "except"
                       ELSE "raised"
    /\ UNCHANGED <<diffVars, concurrentVars, relatedVars, retrieveVars, source, units, _ts_parsers, calls>>

\* Lines 306-307: units = extract_python_units(file_path, content)
ExtractPython ==
    /\ pc = "dispatch"
    /\ language = PYTHON
    /\ units' = extract_python_units(source.content, source.ast)
    /\ events' = IF source.ast.raises THEN events \cup {<<"ast.parse", "SyntaxError">>}
                 ELSE events
    /\ pc' = "fallback"
    /\ UNCHANGED <<diffVars, concurrentVars, relatedVars, retrieveVars, source, language, _ts_parsers, calls>>

\* Lines 308-312: units = extract_treesitter_units(file_path, content, language);
\* init, parse and query are how the import with Parser(lang), parser.parse
\* and the query end ("ok" for one that is not reached)
ExtractTreeSitter ==
    /\ pc = "dispatch"
    /\ language \in TreeSitterLanguages
    /\ \E init \in {"ok", "ImportError", "Exception"}, parse \in {"ok", "Exception"},
          query \in {"ok", "Exception"} :
          LET lang == NormalizeLanguage(language)
              got == _get_treesitter_parser(lang, _ts_parsers, init)
              env == [parse |-> parse, query |-> query]
          IN  /\ lang \in _ts_parsers => init = "ok"
              /\ ~got.parser => parse = "ok"
              /\ (~got.parser \/ parse # "ok") => query = "ok"
              /\ language' = lang
              /\ _ts_parsers' = got.cache
              /\ units' = extract_treesitter_units(source.content, lang, got.parser, env,
                                                   source.captures)
              /\ events' = events
                    \cup (IF init = "ok" THEN {} ELSE {<<"Parser", init>>})
                    \cup (IF parse = "ok" THEN {} ELSE {<<"parser.parse", parse>>})
                    \cup (IF query = "ok" THEN {} ELSE {<<"query", query>>})
    /\ pc' = "fallback"
    /\ UNCHANGED <<diffVars, concurrentVars, relatedVars, retrieveVars, source, calls>>

\* Neither branch of lines 306-312 is taken
ExtractNothing ==
    /\ pc = "dispatch"
    /\ language # PYTHON
    /\ language \notin TreeSitterLanguages
    /\ pc' = "fallback"
    /\ UNCHANGED <<diffVars, concurrentVars, relatedVars, retrieveVars, extractVars>>

\* Lines 314-321 and 336: the whole-file fallback, and the return
FallbackAndReturn ==
    /\ pc = "fallback"
    /\ units' = IF NeedsFallback(language, units)
                THEN Append(units, FileUnit(source.path, source.content))
                ELSE units
    /\ pc' = "extracted"
    /\ UNCHANGED <<diffVars, concurrentVars, relatedVars, retrieveVars, source, language, _ts_parsers, events, calls>>

\* Lines 323-336: the outer handler, and the return
ExceptAndReturn ==
    /\ pc = "except"
    /\ units' = IF Strip(source.content) # <<>>
                THEN Append(units, FileUnit(source.path, source.content))
                ELSE units
    /\ pc' = "extracted"
    /\ UNCHANGED <<diffVars, concurrentVars, relatedVars, retrieveVars, source, language, _ts_parsers, events, calls>>

\* The next call, in the same process: the parser cache is kept
NextFile ==
    /\ pc = "extracted"
    /\ calls < MaxCalls
    /\ source' \in SourceFiles
    /\ language' = None
    /\ units' = <<>>
    /\ events' = {}
    /\ calls' = calls + 1
    /\ pc' = "extract_code_units"
    /\ UNCHANGED <<diffVars, concurrentVars, relatedVars, retrieveVars, _ts_parsers>>

\* A step of the call in progress
ExtractStep ==
    \/ ExtractBegin
    \/ DetectLanguage
    \/ ExtractPython
    \/ ExtractTreeSitter
    \/ ExtractNothing
    \/ FallbackAndReturn
    \/ ExceptAndReturn

NextExtract == ExtractStep \/ NextFile

SpecExtract == InitExtract /\ [][NextExtract]_vars

(***************************************************************************)
(* Claims about extract_code_units                                         *)
(***************************************************************************)

\* C4 as stated: extract_code_units returns an empty sequence only when
\* content is empty; for every non-empty content it returns at least one unit.
C4_EmptyOnlyForEmptyContent ==
    pc = "extracted" => (units = <<>> <=> source.content = <<>>)

\* C4, amended: extract_code_units returns an empty sequence exactly when
\* content is empty or consists of whitespace only; for every path and every
\* content with a character that is not whitespace it returns at least one
\* unit (the whole-file fallback when structural extraction finds nothing).
C4_EmptyOnlyForBlankContent ==
    pc = "extracted" =>
        (units = <<>> <=> \A i \in 1..Len(source.content) : source.content[i] \in Whitespace)

\* C4 witness: structural extraction of a file of a supported language met a
\* failure and found nothing, and the call returned the whole-file unit.
C4_Witness ==
    /\ pc = "extracted"
    /\ language \in {PYTHON} \cup TreeSitterLanguages
    /\ events # {}
    /\ Len(units) = 1
    /\ units[1].type = "file"
    /\ units[1].code = source.content

\* C5: extract_code_units never raises: whatever the path and the content,
\* and however language detection, parser initialization, parsing or the
\* query fail, no exception leaves the call (the call is never at "raised"),
\* and what it returns is a list of units.
C5_ExtractNeverRaises ==
    /\ pc # "raised"
    /\ pc = "extracted" =>
          \A i \in 1..Len(units) :
              /\ units[i].type \in {"function", "class", "interface", "type", "file"}
              /\ units[i].name # None
              /\ Len(units[i].code) >= 0

\* C5 witness: a call returned units although the lexer lookup raised an
\* exception that detect_language_from_path does not catch.
C5_Witness ==
    /\ pc = "extracted"
    /\ <<"get_lexer_for_filename", "Exception">> \in events
    /\ units # <<>>

(***************************************************************************)
(* knowledge_retriever.py: retrieve_similar_patterns                       *)
(***************************************************************************)
SLASH == <<"/">>
DESCRIPTION_HEAD == <<"S", "i", "m", "i", "l", "a", "r", " ">>
DESCRIPTION_MID == <<" ", "'">>
DESCRIPTION_TAIL == <<"'", " ", "f", "o", "u", "n", "d", " ", "i", "n", " ", "c", "o", "d", "e", "b", "a", "s", "e">>
DEFAULT_TYPE == <<"c", "o", "d", "e">>
DEFAULT_NAME == <<"u", "n", "k", "n", "o", "w", "n">>

\* A metadata entry that is None instead of a dict
NoMetadata == [none |-> TRUE]

\* codebase_indexer.configure_gemini: the key is the argument, else the
\* environment variable; without one it raises ValueError
configure_gemini(api_key, env_key) ==
    LET key == IF api_key = None THEN env_key ELSE api_key
    IN  IF key = None \/ key = <<>> THEN "ValueError" ELSE "ok"

\* codebase_indexer.get_or_create_vector_db: makedirs, PersistentClient and
\* get_or_create_collection each succeed or raise
get_or_create_vector_db == {"ok", "Exception"}

\* Line 51: the test of a hunk line
IsAddedLine(line) == StartsWith(line, PLUS) /\ ~StartsWith(line, PLUS3)

\* Lines 49-52: code_lines
CodeLines(content) ==
    LET added == SelectSeq(Split(content, NL), IsAddedLine)
    IN  [i \in 1..Len(added) |-> SliceFrom(added[i], 1)]

\* Line 57: code_snippet
CodeSnippet(content) == Join(CodeLines(content), NL)

\* HunkSkipped measuring the snippet as joined, without strip()
HunkSkipped_Unstripped(content) ==
    \/ CodeLines(content) = <<>>
    \/ Len(CodeSnippet(content)) < 50

\* Lines 54-59: the hunk is passed over without any call
HunkSkipped(content) ==
    \/ CodeLines(content) = <<>>
    \/ Len(Strip(CodeSnippet(content))) < 50

\* Line 72: the where argument of the query
WhereFilter(path) ==
    IF Contains(path, SLASH)
    THEN LET parts == Split(path, SLASH) IN <<parts[1] \o SLASH \o parts[2]>>
    ELSE <<>>

\* Line 84: similarity = 1 - distance, both in tenths
Similarity(distance) == 10 - distance

\* Line 86
PassesThreshold(similarity, threshold) == similarity >= threshold

\* dict.get(key, default)
MetadataGet(metadata, key, default) ==
    IF key \in DOMAIN metadata THEN metadata[key] ELSE default

\* IsSameFile without the test: no neighbor is passed over for its path
IsSameFile_Never(metadata, path) == FALSE

\* Line 88: a missing file_path is None, equal to no path
IsSameFile(metadata, path) == MetadataGet(metadata, "file_path", None) = path

\* Lines 91-96
CodePattern(neighbor) ==
    [file_path |-> MetadataGet(neighbor.metadata, "file_path", <<>>),
     code_snippet |-> neighbor.document,
     similarity_score |-> Similarity(neighbor.distance),
     description |-> DESCRIPTION_HEAD \o MetadataGet(neighbor.metadata, "type", DEFAULT_TYPE)
                     \o DESCRIPTION_MID \o MetadataGet(neighbor.metadata, "name", DEFAULT_NAME)
                     \o DESCRIPTION_TAIL]

\* Lines 76-99: what the results of one query append to patterns.  A
\* neighbor that passes the threshold and whose metadata is None makes
\* metadata.get raise; the handler of line 98 abandons the rest of the
\* results and keeps what was appended.
RECURSIVE ProcessResults(_, _, _)
ProcessResults(results, path, threshold) ==
    IF results = <<>> THEN <<>>
    ELSE LET neighbor == Head(results)
             rest == Tail(results)
         IN  IF ~PassesThreshold(Similarity(neighbor.distance), threshold)
             THEN ProcessResults(rest, path, threshold)
             ELSE IF neighbor.metadata = NoMetadata THEN <<>>
             ELSE IF IsSameFile(neighbor.metadata, path)
             THEN ProcessResults(rest, path, threshold)
             ELSE <<CodePattern(neighbor)>> \o ProcessResults(rest, path, threshold)

\* Lines 45-47: the hunks in the order the two loops visit them
RECURSIVE HunksInOrder(_, _)
HunksInOrder(changes, f) ==
    IF f > Len(changes) THEN <<>>
    ELSE [h \in 1..Len(changes[f].hunks) |-> [file |-> f, hunk |-> h]]
         \o HunksInOrder(changes, f + 1)

\* InsertRanked with p put ahead of the patterns of equal score
InsertRanked_TiesFirst(sorted, p) ==
    LET ahead == {i \in 1..Len(sorted) : sorted[i].similarity_score > p.similarity_score}
    IN  SubSeq(sorted, 1, Cardinality(ahead)) \o <<p>>
        \o SubSeq(sorted, Cardinality(ahead) + 1, Len(sorted))

\* Line 102: list.sort(key=similarity_score, reverse=True) is stable; p
\* goes behind every pattern whose score is not smaller
InsertRanked(sorted, p) ==
    LET ahead == {i \in 1..Len(sorted) : sorted[i].similarity_score >= p.similarity_score}
    IN  SubSeq(sorted, 1, Cardinality(ahead)) \o <<p>>
        \o SubSeq(sorted, Cardinality(ahead) + 1, Len(sorted))

\* SortByScore leaving the pool as the loops filled it
SortByScore_Unsorted(ps) == ps

RECURSIVE SortByScore(_)
SortByScore(ps) ==
    IF ps = <<>> THEN <<>>
    ELSE InsertRanked(SortByScore(SubSeq(ps, 1, Len(ps) - 1)), ps[Len(ps)])

\* DedupKey over the whole snippet
DedupKey_WholeSnippet(pattern) == <<pattern.file_path, pattern.code_snippet>>

\* Line 108
DedupKey(pattern) == <<pattern.file_path, SliceTo(pattern.code_snippet, 100)>>

\* UniquePatterns leaving the scan at a third of stop entries
RECURSIVE UniquePatterns_StopsEarly(_, _, _, _)
UniquePatterns_StopsEarly(ps, seen, unique, stop) ==
    IF ps = <<>> THEN unique
    ELSE IF DedupKey(Head(ps)) \in seen
    THEN UniquePatterns_StopsEarly(Tail(ps), seen, unique, stop)
    ELSE IF Len(unique) + 1 >= stop \div 3 THEN Append(unique, Head(ps))
    ELSE UniquePatterns_StopsEarly(Tail(ps), seen \cup {DedupKey(Head(ps))},
                                   Append(unique, Head(ps)), stop)

\* Lines 105-113: unique_patterns, the scan stopping at stop entries
RECURSIVE UniquePatterns(_, _, _, _)
UniquePatterns(ps, seen, unique, stop) ==
    IF ps = <<>> THEN unique
    ELSE IF DedupKey(Head(ps)) \in seen
    THEN UniquePatterns(Tail(ps), seen, unique, stop)
    ELSE IF Len(unique) + 1 >= stop THEN Append(unique, Head(ps))
    ELSE UniquePatterns(Tail(ps), seen \cup {DedupKey(Head(ps))},
                        Append(unique, Head(ps)), stop)

(***************************************************************************)
(* Calls of retrieve_similar_patterns                                      *)
(***************************************************************************)
MaxTopK == 2

\* n copies of the character c
Rep(c, n) == [i \in 1..n |-> c]

HUNK_HEADER == <<"@", "@", " ", "-", "1", ",", "2", " ", "+", "1", ",", "3", " ", "@", "@">>
API_KEY == <<"k", "e", "y">>
SRC_A_PY == <<"s", "r", "c", "/", "a", ".", "p", "y">>
LIB_B_PY == <<"l", "i", "b", "/", "b", ".", "p", "y">>
A_PY == <<"a", ".", "p", "y">>
LIB_U_PY == <<"l", "i", "b", "/", "u", ".", "p", "y">>
LIB_C_PY == <<"l", "i", "b", "/", "c", ".", "p", "y">>
LIB_D_PY == <<"l", "i", "b", "/", "d", ".", "p", "y">>
FUNCTION == <<"f", "u", "n", "c", "t", "i", "o", "n">>
CLASS == <<"c", "l", "a", "s", "s">>
NAME_F == <<"f">>
NAME_G == <<"g">>

\* Hunk contents: 50 characters of added code over two lines; 60 over one;
\* 49; 52 of which 47 are left by strip(); no added line at all
HUNK_TWO_LINES ==
    HUNK_HEADER \o NL \o PLUS \o Rep("x", 30) \o NL \o <<" ", "c">> \o NL
    \o <<"-", "o">> \o NL \o PLUS \o Rep("y", 19)
HUNK_ONE_LINE == HUNK_HEADER \o NL \o PLUS \o Rep("z", 60)
HUNK_SHORT == HUNK_HEADER \o NL \o PLUS \o Rep("x", 49)
HUNK_PADDED == HUNK_HEADER \o NL \o PLUS \o Rep(" ", 2) \o Rep("x", 47) \o Rep(" ", 3)
HUNK_NO_ADDED == HUNK_HEADER \o NL \o PLUS3 \o <<" ", "b">> \o NL \o <<"-", "o">> \o NL \o <<" ", "c">>

\* file_changes arguments (of a FileChange, the path and the content of its
\* hunks are all the function reads)
ChangedFiles ==
    { <<>>,
      << [path |-> SRC_A_PY, hunks |-> <<[content |-> HUNK_TWO_LINES], [content |-> HUNK_ONE_LINE]>>],
         [path |-> LIB_B_PY, hunks |-> <<[content |-> HUNK_TWO_LINES]>>] >>,
      << [path |-> A_PY, hunks |-> <<[content |-> HUNK_SHORT], [content |-> HUNK_ONE_LINE],
                                     [content |-> HUNK_PADDED], [content |-> HUNK_NO_ADDED]>>] >>,
      << [path |-> SRC_A_PY, hunks |-> <<>>],
         [path |-> LIB_C_PY, hunks |-> <<[content |-> HUNK_ONE_LINE]>>] >> }

\* similarity_threshold arguments, in tenths (0.7 is the default of line 20)
Thresholds == {5, 7}

\* A file with four hunks that are queried
FourHunks ==
    << [path |-> LIB_B_PY, hunks |-> [h \in 1..4 |-> [content |-> HUNK_ONE_LINE]]] >>

Requests ==
    [file_changes : ChangedFiles, top_k : 0..MaxTopK, similarity_threshold : Thresholds,
     gemini_api_key : {None, API_KEY}]
    \cup {[file_changes |-> FourHunks, top_k |-> 1, similarity_threshold |-> 5,
           gemini_api_key |-> API_KEY]}

\* Indexed documents: two that agree on their first 100 characters, one that
\* departs from them at the 100th, and a short one
DOC_X == Rep("a", 100) \o <<"x">>
DOC_Y == Rep("a", 100) \o <<"y">>
DOC_Z == Rep("a", 99) \o <<"z", "x">>
DOC_G == <<"d", "e", "f", " ", "g", "(", ")", ":", " ", "p", "a", "s", "s">>

\* What the index may hold: id, distance in tenths, document, metadata
Neighbor(id, distance, document, metadata) ==
    [id |-> id, distance |-> distance, document |-> document, metadata |-> metadata]

Stored(path, type, name) == [file_path |-> path, type |-> type, name |-> name]

N1 == Neighbor("n1", 1, DOC_X, Stored(LIB_U_PY, FUNCTION, NAME_F))
N2 == Neighbor("n2", 3, DOC_Y, Stored(LIB_U_PY, FUNCTION, NAME_F))
N3 == Neighbor("n3", 1, DOC_Y, Stored(LIB_U_PY, FUNCTION, NAME_F))
N4 == Neighbor("n4", 3, DOC_Z, Stored(LIB_U_PY, FUNCTION, NAME_F))
N5 == Neighbor("n5", 3, DOC_G, Stored(LIB_C_PY, CLASS, NAME_G))
N6 == Neighbor("n6", 4, DOC_G, Stored(LIB_D_PY, FUNCTION, NAME_G))
N7 == Neighbor("n7", 0, DOC_G, Stored(SRC_A_PY, FUNCTION, NAME_G))
N8 == Neighbor("n8", 2, DOC_G, [type |-> FUNCTION])
N9 == Neighbor("n9", 1, DOC_G, NoMetadata)
N10 == Neighbor("n10", 12, DOC_G, Stored(LIB_D_PY, FUNCTION, NAME_G))

\* What collection.query may answer when asked for n results
QueryResults(n) ==
    { r \in { <<>>, <<N1>>, <<N2>>, <<N3>>, <<N4>>, <<N5>>, <<N6>>, <<N7>>, <<N8>>, <<N9>>,
              <<N10>>, <<N7, N5>>, <<N9, N5>>, <<N5, N9>>, <<N2, N1>>, <<N6, N4>>,
              <<N10, N8>> } : Len(r) <= n }

\* A call to a collaborator and its outcome
Call(name, at, outcome, n, where, results) ==
    [call |-> name, file |-> at.file, hunk |-> at.hunk, outcome |-> outcome,
     n_results |-> n, where |-> where, results |-> results]

NoHunkAt == [file |-> 0, hunk |-> 0]

InitRetrieve ==
    /\ pc = "retrieve_similar_patterns"
    /\ request \in Requests
    /\ hunk_no = 0
    /\ patterns = <<>>
    /\ ranked = <<>>
    /\ similar = <<>>
    /\ external = <<>>
    /\ DiffIdle
    /\ ExtractIdle
    /\ RelatedIdle
    /\ ConcurrentIdle

\* Line 39, outside any try: the ValueError of a missing key leaves the
\* function
ConfigureGemini ==
    /\ pc = "retrieve_similar_patterns"
    /\ \E env_key \in {None, API_KEY} :
          LET outcome == configure_gemini(request.gemini_api_key, env_key)
          IN  /\ external' = Append(external, Call("configure_gemini", NoHunkAt, outcome, 0, <<>>, <<>>))
              /\ pc' = IF outcome = "ok" THEN "get_or_create_vector_db" ELSE "propagated"
    /\ UNCHANGED <<diffVars, concurrentVars, relatedVars, extractVars, request, hunk_no, patterns, ranked, similar>>

\* Line 42, outside any try
OpenVectorDb ==
    /\ pc = "get_or_create_vector_db"
    /\ \E outcome \in get_or_create_vector_db :
          /\ external' = Append(external, Call("get_or_create_vector_db", NoHunkAt, outcome, 0, <<>>, <<>>))
          /\ pc' = IF outcome = "ok" THEN "for_hunk" ELSE "propagated"
    /\ UNCHANGED <<diffVars, concurrentVars, relatedVars, extractVars, request, hunk_no, patterns, ranked, similar>>

\* The hunk the loops of lines 45-47 stand at
HunkAt == HunksInOrder(request.file_changes, 1)[hunk_no + 1]
HunkContent == request.file_changes[HunkAt.file].hunks[HunkAt.hunk].content
HunkPath == request.file_changes[HunkAt.file].path
InLoop == pc = "for_hunk" /\ hunk_no < Len(HunksInOrder(request.file_changes, 1))

\* Lines 49-59: continue before any call
SkipHunk ==
    /\ InLoop
    /\ HunkSkipped(HunkContent)
    /\ hunk_no' = hunk_no + 1
    /\ UNCHANGED <<pc, diffVars, concurrentVars, relatedVars, extractVars, request, patterns, ranked, similar, external>>

\* EmbedFails leaving both loops (break) instead of moving to the next hunk
EmbedFails_LeavesLoops ==
    /\ InLoop
    /\ ~HunkSkipped(HunkContent)
    /\ external' = Append(external, Call("generate_embedding", HunkAt, "Exception", 0, <<>>, <<>>))
    /\ hunk_no' = Len(HunksInOrder(request.file_changes, 1))
    /\ UNCHANGED <<pc, diffVars, concurrentVars, relatedVars, extractVars, request, patterns, ranked, similar>>

\* Lines 62-65: generate_embedding raises
EmbedFails ==
    /\ InLoop
    /\ ~HunkSkipped(HunkContent)
    /\ external' = Append(external, Call("generate_embedding", HunkAt, "Exception", 0, <<>>, <<>>))
    /\ hunk_no' = hunk_no + 1
    /\ UNCHANGED <<pc, diffVars, concurrentVars, relatedVars, extractVars, request, patterns, ranked, similar>>

\* Lines 68-73, 98-99: collection.query raises
QueryFails ==
    /\ InLoop
    /\ ~HunkSkipped(HunkContent)
    /\ external' = external
          \o << Call("generate_embedding", HunkAt, "ok", 0, <<>>, <<>>),
                Call("query", HunkAt, "Exception", request.top_k, WhereFilter(HunkPath), <<>>) >>
    /\ hunk_no' = hunk_no + 1
    /\ UNCHANGED <<pc, diffVars, concurrentVars, relatedVars, extractVars, request, patterns, ranked, similar>>

\* Lines 68-99: collection.query answers and its results are processed
QueryAnswers ==
    /\ InLoop
    /\ ~HunkSkipped(HunkContent)
    /\ \E results \in QueryResults(request.top_k) :
          /\ external' = external
                \o << Call("generate_embedding", HunkAt, "ok", 0, <<>>, <<>>),
                      Call("query", HunkAt, "ok", request.top_k, WhereFilter(HunkPath), results) >>
          /\ patterns' = patterns \o ProcessResults(results, HunkPath, request.similarity_threshold)
    /\ hunk_no' = hunk_no + 1
    /\ UNCHANGED <<pc, diffVars, concurrentVars, relatedVars, extractVars, request, ranked, similar>>

\* Lines 102-115: sort, deduplicate, return
RankAndReturn ==
    /\ pc = "for_hunk"
    /\ hunk_no = Len(HunksInOrder(request.file_changes, 1))
    /\ ranked' = SortByScore(patterns)
    /\ similar' = SliceTo(UniquePatterns(ranked', {}, <<>>, request.top_k * 3), request.top_k * 2)
    /\ pc' = "retrieved"
    /\ UNCHANGED <<diffVars, concurrentVars, relatedVars, extractVars, request, hunk_no, patterns, external>>

NextRetrieve ==
    \/ ConfigureGemini
    \/ OpenVectorDb
    \/ SkipHunk
    \/ EmbedFails
    \/ QueryFails
    \/ QueryAnswers
    \/ RankAndReturn

SpecRetrieve == InitRetrieve /\ [][NextRetrieve]_vars

(***************************************************************************)
(* Properties of retrieve_similar_patterns                                 *)
(***************************************************************************)

\* The successful queries among the calls made
AnsweredQueries == {c \in 1..Len(external) : external[c].call = "query" /\ external[c].outcome = "ok"}

\* The entry p was built from the neighbor n
BuiltFrom(p, n) ==
    /\ n.metadata # NoMetadata
    /\ p.code_snippet = n.document
    /\ p.similarity_score = 10 - n.distance
    /\ p.file_path = IF "file_path" \in DOMAIN n.metadata THEN n.metadata.file_path ELSE <<>>

\* The neighbor n is similar enough and is not stored under the path
StoredElsewhere(n, path) ==
    /\ 10 - n.distance >= request.similarity_threshold
    /\ n.metadata # NoMetadata
    /\ "file_path" \in DOMAIN n.metadata => n.metadata.file_path # path

\* C6: every returned CodePattern comes from a neighbor answered to some
\* query whose similarity (1 - distance) is at least similarity_threshold
\* and whose stored file_path differs from the path of the changed file
\* whose hunk produced that query.
C6_ReturnedFromQualifiedNeighbor ==
    pc = "retrieved" =>
        \A k \in 1..Len(similar) :
            \E c \in AnsweredQueries :
                \E i \in 1..Len(external[c].results) :
                    /\ StoredElsewhere(external[c].results[i],
                                       request.file_changes[external[c].file].path)
                    /\ BuiltFrom(similar[k], external[c].results[i])

\* A call that returned patterns after the index answered, to the hunks of
\* one file, a neighbor stored under that file's own path and a neighbor
\* below the threshold
C6_Witness ==
    /\ pc = "retrieved"
    /\ similar # <<>>
    /\ \E c \in AnsweredQueries :
          \E i \in 1..Len(external[c].results) :
              LET n == external[c].results[i]
              IN  /\ n.metadata # NoMetadata
                  /\ "file_path" \in DOMAIN n.metadata
                  /\ n.metadata.file_path = request.file_changes[external[c].file].path
                  /\ 10 - n.distance >= request.similarity_threshold
    /\ \E c \in AnsweredQueries :
          \E i \in 1..Len(external[c].results) :
              10 - external[c].results[i].distance < request.similarity_threshold

\* Where the entry p was first met by the loops
FirstEncounter(p) ==
    CHOOSE i \in 1..Len(patterns) :
        /\ patterns[i] = p
        /\ \A j \in 1..Len(patterns) : patterns[j] = p => i <= j

\* C7: the returned list is ordered by non-increasing similarity_score, and
\* two returned entries of equal score are in the order in which they were
\* met (file order, hunk order, result order).
C7_DescendingTiesInEncounterOrder ==
    pc = "retrieved" =>
        \A i, j \in 1..Len(similar) :
            i < j =>
                /\ similar[i].similarity_score >= similar[j].similarity_score
                /\ similar[i].similarity_score = similar[j].similarity_score
                      => FirstEncounter(similar[i]) < FirstEncounter(similar[j])

\* A call whose sort moved an entry and which returned two entries of equal
\* score
C7_Witness ==
    /\ pc = "retrieved"
    /\ ranked # patterns
    /\ \E i, j \in 1..Len(similar) :
          i < j /\ similar[i].similarity_score = similar[j].similarity_score

\* The first n characters of s
FirstChars(s, n) == [i \in 1..(IF Len(s) < n THEN Len(s) ELSE n) |-> s[i]]

\* p and q have the same file_path and the same first 100 characters
SameKey(p, q) ==
    /\ p.file_path = q.file_path
    /\ FirstChars(p.code_snippet, 100) = FirstChars(q.code_snippet, 100)

\* C8: no two returned entries share the key (file_path, first 100
\* characters of code_snippet), and a returned entry is, among the pooled
\* candidates of its key, the one of greatest similarity and, among those
\* of that similarity, the one met first.
C8_OnePerKeyHighestRanked ==
    pc = "retrieved" =>
        /\ \A i, j \in 1..Len(similar) : i # j => ~SameKey(similar[i], similar[j])
        /\ \A k \in 1..Len(similar) :
              \E i \in 1..Len(patterns) :
                  /\ patterns[i] = similar[k]
                  /\ \A j \in 1..Len(patterns) :
                        SameKey(patterns[j], similar[k]) =>
                            \/ patterns[j].similarity_score < patterns[i].similarity_score
                            \/ /\ patterns[j].similarity_score = patterns[i].similarity_score
                               /\ i <= j

\* A call that pooled two different candidates of one key, longer than 100
\* characters, and returned one of them
C8_Witness ==
    /\ pc = "retrieved"
    /\ \E i, j \in 1..Len(patterns) :
          /\ i < j
          /\ patterns[i] # patterns[j]
          /\ SameKey(patterns[i], patterns[j])
          /\ Len(patterns[i].code_snippet) > 100
          /\ \E k \in 1..Len(similar) : SameKey(similar[k], patterns[i])

\* Every call made to a collaborator failed
AllCallsFailed == \A c \in 1..Len(external) : external[c].outcome # "ok"

\* C9: no error of a collaborator leaves retrieve_similar_patterns: when
\* the configuration of the embedding service, the opening of the index,
\* the embedding or the query fails, the call returns an empty list.
C9_FailureReturnsEmpty ==
    /\ pc # "propagated"
    /\ pc = "retrieved" /\ external # <<>> /\ AllCallsFailed => similar = <<>>

(***************************************************************************)
(* Further properties of parse_diff                                        *)
(***************************************************************************)

\* No line of the section starts with '@@'
NoHunkLine(section) ==
    \A i \in 1..Len(Split(section, NL)) : ~StartsWith(Split(section, NL)[i], AT2)

\* The FileChange has no hunk and counts nothing
IsHunkless(file_change) ==
    /\ file_change.hunks = <<>>
    /\ file_change.additions = 0
    /\ file_change.deletions = 0

\* The sections that are kept if a section without '@@' line is never
\* dropped: those whose path resolves and those without '@@' line
ResolvableOrHunkless ==
    SelectSeq(DelimitedSections,
              LAMBDA sec : ResolvePath(Split(sec, NL)) # None \/ NoHunkLine(sec))

\* C11 as stated: every section without a line starting with '@@' has its
\* own FileChange, with no hunk and zero counts.
C11_HunklessSectionKept ==
    pc = "returned" =>
        /\ Len(file_changes) = Len(ResolvableOrHunkless)
        /\ \A k \in 1..Len(file_changes) :
              NoHunkLine(ResolvableOrHunkless[k]) => IsHunkless(file_changes[k])

\* C11: a section whose path resolves and that contains no line starting
\* with '@@' is not dropped: parse_diff emits a FileChange for it, at the
\* section's place, with hunks empty and additions = deletions = 0.
C11_ResolvableHunklessSectionKept ==
    pc = "returned" =>
        /\ Len(file_changes) = Len(ResolvableSections)
        /\ \A k \in 1..Len(ResolvableSections) :
              NoHunkLine(ResolvableSections[k]) =>
                  /\ IsHunkless(file_changes[k])
                  /\ file_changes[k].path = ResolvePath(Split(ResolvableSections[k], NL))

\* A returned call whose input holds a rename-only section next to a
\* section with a hunk
C11_Witness ==
    /\ pc = "returned"
    /\ \E k, j \in 1..Len(ResolvableSections) :
          /\ NoHunkLine(ResolvableSections[k])
          /\ ResolvableSections[k] = HEAD_RENAME \o NL
          /\ Len(file_changes) >= k
          /\ IsHunkless(file_changes[k])
          /\ ~NoHunkLine(ResolvableSections[j])

\* The line starts with '@@' and does not match the hunk-header pattern
IsMalformedHeader(line) == StartsWith(line, AT2) /\ ~MatchHunkHeader(line).ok

\* The line is a hunk header
IsWellFormedHeader(line) == StartsWith(line, AT2) /\ MatchHunkHeader(line).ok

\* seq without its i-th element
RemoveAt(seq, i) == SubSeq(seq, 1, i - 1) \o SubSeq(seq, i + 1, Len(seq))

\* The input text without line m of its k-th delimited section
TextWithoutLine(k, m) ==
    LET shorter == Join(RemoveAt(Split(DelimitedSections[k], NL), m), NL)
    IN  Join(<<BeforeFirstDelimiter>>
             \o [j \in 1..Len(DelimitedSections) |->
                    IF j = k THEN shorter ELSE DelimitedSections[j]],
             DIFF_GIT)

\* The place, in the result, of the FileChange of the k-th delimited section
PlaceOf(k) ==
    Cardinality({j \in 1..k : ResolvePath(Split(DelimitedSections[j], NL)) # None})

\* The hunk headers of the section that come after its line m
HeadersAfter(section, m) ==
    {h \in (m + 1)..Len(Split(section, NL)) : IsWellFormedHeader(Split(section, NL)[h])}

StructuralLanguages == {PYTHON, JAVASCRIPT, TYPESCRIPT, JAVA, CPP, GO}

\* The returned units hold no unit found by structural extraction
NoStructuralUnit ==
    \A i \in 1..Len(units) : units[i].type \notin {"function", "class", "interface", "type"}

\* What is returned is the whole-file unit and nothing else
OnlyWholeFileUnit ==
    /\ Len(units) = 1
    /\ DOMAIN units[1] = {"code", "type", "name"}
    /\ units[1].type = "file"
    /\ units[1].code = source.content
    /\ units[1].name = Split(source.path, <<"/">>)[Len(Split(source.path, <<"/">>))]

\* C13 as stated: whenever content is non-empty and the language is none
\* of the six, or structural extraction gave no unit, exactly the whole-file
\* unit is returned.
C13_FallbackForNonEmptyContent ==
    (pc = "extracted" /\ source.content # <<>>
        /\ (language \notin StructuralLanguages \/ NoStructuralUnit))
    => OnlyWholeFileUnit

\* C13: whenever content holds a character that is not whitespace and the
\* language is none of python/javascript/typescript/java/cpp/go, or
\* structural extraction gave no unit, extract_code_units returns exactly
\* one unit: type file, code the whole content, name the base name of the
\* path, no line_start and no line_end.
C13_FallbackForNonBlankContent ==
    (pc = "extracted" /\ Strip(source.content) # <<>>
        /\ (language \notin StructuralLanguages \/ NoStructuralUnit))
    => OnlyWholeFileUnit

\* A call returned the whole-file unit of a file in a directory
C13_Witness ==
    /\ pc = "extracted"
    /\ Contains(source.path, <<"/">>)
    /\ Strip(source.content) # <<>>
    /\ OnlyWholeFileUnit

\* The function, method and class definition nodes of the syntax tree, in
\* the order of ast.walk
DefinitionNodes ==
    SelectSeq(source.ast.nodes,
              LAMBDA node : node.type \in {"FunctionDef", "AsyncFunctionDef", "ClassDef"})

\* The unit is the one of the definition node
IsUnitOf(unit, node) ==
    /\ unit.type = (IF node.type = "ClassDef" THEN "class" ELSE "function")
    /\ unit.name = node.name
    /\ "line_start" \in DOMAIN unit /\ unit.line_start = node.lineno
    /\ "line_end" \in DOMAIN unit /\ unit.line_end = node.end_lineno

\* C14: for a Python file that parses, the units returned for the nodes of
\* its syntax tree are exactly one per function or method definition node
\* (sync or async, at any depth) and per class definition node, with the
\* node's kind, name and first and last line; no other node has a unit.
C14_UnitPerDefinitionNode ==
    (pc = "extracted" /\ language = PYTHON /\ ~source.ast.raises /\ DefinitionNodes # <<>>)
    => /\ Len(units) = Len(DefinitionNodes)
       /\ \A i \in 1..Len(DefinitionNodes) : IsUnitOf(units[i], DefinitionNodes[i])

\* The captures of the query that are declarations, in the order of
\* query.captures
Declarations ==
    SelectSeq(source.captures,
              LAMBDA cap : cap.capture \in {"func", "class", "interface", "type"})

\* The text of the identifier captured as the name of the declaration: the
\* first "name" capture inside the declaration's span
NameOfDeclaration(decl) ==
    LET inside == {j \in 1..Len(source.captures) :
                      /\ source.captures[j].capture = "name"
                      /\ source.captures[j].node.start_byte >= decl.node.start_byte
                      /\ source.captures[j].node.end_byte <= decl.node.end_byte}
    IN  source.captures[CHOOSE j \in inside : \A k \in inside : j <= k].node.text

\* C15: for a javascript/typescript/java/cpp/go file whose parser and query
\* succeed, every declaration matched by the query yields one unit whose
\* type is the declaration's kind (func as function), whose name is the
\* identifier's text and whose lines are the declaration's span; a file
\* with a named declaration does not fall back to the whole-file unit.
C15_UnitPerDeclaration ==
    (pc = "extracted" /\ language \in {JAVASCRIPT, TYPESCRIPT, JAVA, CPP, GO}
        /\ events = {} /\ Declarations # <<>>)
    => /\ Len(units) = Len(Declarations)
       /\ \A i \in 1..Len(Declarations) :
             /\ units[i].type = (IF Declarations[i].capture = "func" THEN "function"
                                 ELSE Declarations[i].capture)
             /\ units[i].name = NameOfDeclaration(Declarations[i])
             /\ "line_start" \in DOMAIN units[i]
             /\ units[i].line_start = Declarations[i].node.start_row + 1
             /\ units[i].line_end = Declarations[i].node.end_row + 1

(***************************************************************************)
(* Further properties of retrieve_similar_patterns                         *)
(***************************************************************************)

\* The places of the sorted pool that hold the first entry of their key
FirstOfKey == {i \in 1..Len(ranked) : \A j \in 1..(i - 1) : ~SameKey(ranked[j], ranked[i])}

\* The sorted pool with one entry per key: the n-th entry is the one at the
\* n-th place of FirstOfKey
RankedDeduplicated ==
    [n \in 1..Cardinality(FirstOfKey) |->
        ranked[CHOOSE i \in FirstOfKey : Cardinality({j \in FirstOfKey : j <= i}) = n]]

\* C16: for every top_k >= 0 the call returns at most 2*top_k entries, and
\* what it returns is the first min(2*top_k, u) entries of the ranked,
\* deduplicated pool, u being the number of distinct keys in the pool.
C16_FirstEntriesOfDeduplicatedPool ==
    pc = "retrieved" =>
        LET u == Cardinality(FirstOfKey)
            n == IF 2 * request.top_k < u THEN 2 * request.top_k ELSE u
        IN  /\ Len(similar) <= 2 * request.top_k
            /\ similar = SubSeq(RankedDeduplicated, 1, n)

\* A call that returned 2*top_k entries from a pool of more than 3*top_k
\* keys, so that the scan stopped before the end of the pool
C16_Witness ==
    /\ pc = "retrieved"
    /\ request.top_k >= 1
    /\ Cardinality(FirstOfKey) > 3 * request.top_k
    /\ Len(similar) = 2 * request.top_k

\* The answered queries, in the order they were made
AnsweredInOrder == SelectSeq(external, LAMBDA c : c.call = "query" /\ c.outcome = "ok")

\* What the answers to the queries calls put into the pool, hunk by hunk
RECURSIVE PoolOf(_)
PoolOf(queries) ==
    IF queries = <<>> THEN <<>>
    ELSE ProcessResults(queries[1].results, request.file_changes[queries[1].file].path,
                        request.similarity_threshold)
         \o PoolOf(Tail(queries))

\* A step in which the embed call or the query of a hunk fails
HunkFailureStep ==
    /\ Len(external') > Len(external)
    /\ external'[Len(external')].call \in {"generate_embedding", "query"}
    /\ external'[Len(external')].outcome = "Exception"

\* C17: a failure of the embed call or of the query of one hunk touches that
\* hunk only: the pool is what the answered queries of the other hunks put
\* into it, as when the failing hunk is absent; the failure leaves the pool
\* as it is and the loops go on with the next hunk, and no such failure
\* leaves the call.
C17_HunkFailureIsLocal ==
    /\ [](pc \in {"for_hunk", "retrieved"} => patterns = PoolOf(AnsweredInOrder))
    /\ [](pc = "propagated" =>
            \A c \in 1..Len(external) : external[c].call \notin {"generate_embedding", "query"})
    /\ [][HunkFailureStep =>
            /\ pc' = "for_hunk"
            /\ hunk_no' = hunk_no + 1
            /\ patterns' = patterns]_vars

\* A returned call in which an embed call failed and a query failed, with
\* a hunk before and a hunk after the failures putting patterns into the pool
C17_Witness ==
    /\ pc = "retrieved"
    /\ Len(external) = 9
    /\ external[4].call = "query" /\ external[4].outcome = "ok"
    /\ PoolOf(<<external[4]>>) # <<>>
    /\ external[5].call = "generate_embedding" /\ external[5].outcome = "Exception"
    /\ external[7].call = "query" /\ external[7].outcome = "Exception"
    /\ external[9].call = "query" /\ external[9].outcome = "ok"
    /\ PoolOf(<<external[9]>>) # <<>>

(***************************************************************************)
(* knowledge_retriever.py: retrieve_related_files                          *)
(***************************************************************************)
SIMILAR_NAME == <<"s", "i", "m", "i", "l", "a", "r", "_", "n", "a", "m", "e">>
REASON_HEAD == <<"F", "i", "l", "e", " ", "n", "a", "m", "e", " ", "m", "a", "t", "c", "h", "e", "s", " ">>

\* IsOwnPath without the test: no entry is passed over for its path
IsOwnPath_Never(related_path, file_path) == FALSE

\* Line 152: the file being changed
IsOwnPath(related_path, file_path) == related_path = file_path

\* Lines 155-159
RelatedFile(related_path, file_name) ==
    [path |-> related_path, relationship |-> SIMILAR_NAME, reason |-> REASON_HEAD \o file_name]

\* Lines 148-162: what the metadatas of one answer append to related_files.
\* A metadata that is None makes metadata.get raise; the handler of line
\* 161 abandons the rest of the answer and keeps what was appended.
RECURSIVE ProcessMetadatas(_, _, _)
ProcessMetadatas(metadatas, file_path, file_name) ==
    IF metadatas = <<>> THEN <<>>
    ELSE IF Head(metadatas) = NoMetadata THEN <<>>
    ELSE LET related_path == MetadataGet(Head(metadatas), "file_path", <<>>)
             rest == ProcessMetadatas(Tail(metadatas), file_path, file_name)
         IN  IF IsOwnPath(related_path, file_path) THEN rest
             ELSE <<RelatedFile(related_path, file_name)>> \o rest

\* UniqueFiles keeping the last entry of each path
RECURSIVE UniqueFiles_KeepsLast(_, _)
UniqueFiles_KeepsLast(files, seen) ==
    IF files = <<>> THEN <<>>
    ELSE IF \E k \in 2..Len(files) : files[k].path = Head(files).path
    THEN UniqueFiles_KeepsLast(Tail(files), seen)
    ELSE <<Head(files)>> \o UniqueFiles_KeepsLast(Tail(files), seen)

\* Lines 168-173: unique_files
RECURSIVE UniqueFiles(_, _)
UniqueFiles(files, seen) ==
    IF files = <<>> THEN <<>>
    ELSE IF Head(files).path \in seen THEN UniqueFiles(Tail(files), seen)
    ELSE <<Head(files)>> \o UniqueFiles(Tail(files), seen \cup {Head(files).path})

\* IndexHandlerCatches for a handler written `except ValueError`
IndexHandlerCatches_ValueErrorOnly(exc) == exc = "ValueError"

\* Lines 161 and 164, except Exception: the classes of exception the two
\* handlers catch
IndexHandlerCatches(exc) == exc \in {"ValueError", "Exception"}

(***************************************************************************)
(* Calls of retrieve_related_files                                         *)
(***************************************************************************)
LIB_A_PY == <<"l", "i", "b", "/", "a", ".", "p", "y">>

\* The path of the k-th indexed file named a.py: 'dk/a.py'
IndexedPath(k) == <<"d">> \o FormatInt(k) \o <<"/">> \o A_PY

\* The metadata of the indexed files from the k-th to the l-th
IndexedRange(k, l) ==
    [i \in 1..(l - k + 1) |-> Stored(IndexedPath(k + i - 1), FUNCTION, NAME_F)]

\* file_changes arguments: none, one file, three files of which two have
\* the same base name
RelatedChangedFiles ==
    { <<>>,
      << [path |-> A_PY] >>,
      << [path |-> SRC_A_PY], [path |-> LIB_A_PY], [path |-> LIB_B_PY] >> }

\* What collection.get may answer under 'metadatas' when asked for at most
\* 10 entries
GetResults ==
    { <<>>,
      IndexedRange(1, 10),
      IndexedRange(8, 14),
      << Stored(SRC_A_PY, FUNCTION, NAME_F), Stored(LIB_A_PY, CLASS, NAME_G),
         Stored(SRC_A_PY, FUNCTION, NAME_G), Stored(IndexedPath(1), FUNCTION, NAME_F) >>,
      << Stored(LIB_B_PY, FUNCTION, NAME_F), NoMetadata, Stored(IndexedPath(2), FUNCTION, NAME_F) >>,
      << [type |-> FUNCTION], Stored(A_PY, FUNCTION, NAME_F) >> }

InitRelated ==
    /\ pc = "retrieve_related_files"
    /\ request \in [file_changes : RelatedChangedFiles]
    /\ external = <<>>
    /\ file_no = 0
    /\ related_files = <<>>
    /\ unique_files = <<>>
    /\ hunk_no = 0
    /\ patterns = <<>>
    /\ ranked = <<>>
    /\ similar = <<>>
    /\ DiffIdle
    /\ ExtractIdle
    /\ ConcurrentIdle

\* Line 135, inside the outer try: a failure is caught at line 164
OpenIndex ==
    /\ pc = "retrieve_related_files"
    /\ \E outcome \in get_or_create_vector_db :
          /\ external' = Append(external, Call("get_or_create_vector_db", NoHunkAt, outcome, 0, <<>>, <<>>))
          /\ pc' = IF outcome = "ok" THEN "for_file"
                   ELSE IF IndexHandlerCatches(outcome) THEN "deduplicate"
                   ELSE "propagated"
    /\ UNCHANGED <<diffVars, concurrentVars, extractVars, relatedVars, request, hunk_no, patterns, ranked, similar>>

\* The file the loop of line 137 stands at
FileAt == [file |-> file_no + 1, hunk |-> 0]
FilePath == request.file_changes[file_no + 1].path
InFileLoop == pc = "for_file" /\ file_no < Len(request.file_changes)

\* Lines 142-146, 161-162: collection.get raises
GetFails ==
    /\ InFileLoop
    /\ \E outcome \in {"ValueError", "Exception"} :
          /\ external' = Append(external, Call("get", FileAt, outcome, 10, <<BaseName(FilePath)>>, <<>>))
          /\ pc' = IF IndexHandlerCatches(outcome) THEN "for_file" ELSE "propagated"
    /\ file_no' = file_no + 1
    /\ UNCHANGED <<diffVars, concurrentVars, extractVars, related_files, unique_files, request, hunk_no,
                   patterns, ranked, similar>>

\* Lines 142-162: collection.get answers and its metadatas are processed
GetAnswers ==
    /\ InFileLoop
    /\ \E metadatas \in GetResults :
          /\ external' = Append(external, Call("get", FileAt, "ok", 10, <<BaseName(FilePath)>>, metadatas))
          /\ related_files' = related_files
                \o ProcessMetadatas(metadatas, FilePath, BaseName(FilePath))
    /\ file_no' = file_no + 1
    /\ UNCHANGED <<pc, diffVars, concurrentVars, extractVars, unique_files, request, hunk_no, patterns,
                   ranked, similar>>

\* Lines 167-175: deduplicate, return
DeduplicateAndReturn ==
    /\ \/ pc = "for_file" /\ file_no = Len(request.file_changes)
       \/ pc = "deduplicate"
    /\ unique_files' = SliceTo(UniqueFiles(related_files, {}), 10)
    /\ pc' = "related"
    /\ UNCHANGED <<diffVars, concurrentVars, extractVars, file_no, related_files, retrieveVars>>

NextRelated ==
    \/ OpenIndex
    \/ GetFails
    \/ GetAnswers
    \/ DeduplicateAndReturn

SpecRelated == InitRelated /\ [][NextRelated]_vars

(***************************************************************************)
(* Properties of retrieve_related_files                                    *)
(***************************************************************************)

\* The answered calls of collection.get
AnsweredGets == {c \in 1..Len(external) : external[c].call = "get" /\ external[c].outcome = "ok"}

\* The path stored in a metadata ('' when it stores none)
StoredPath(metadata) ==
    IF "file_path" \in DOMAIN metadata THEN metadata.file_path ELSE <<>>

\* Where an entry of the path was first appended by the loop
FirstAppended(path) ==
    CHOOSE i \in 1..Len(related_files) :
        /\ related_files[i].path = path
        /\ \A j \in 1..(i - 1) : related_files[j].path # path

\* C18: the returned list has at most 10 entries, of pairwise distinct
\* paths, in the order in which their paths were first met, each the entry
\* first met for its path; and each entry was contributed by the query of a
\* changed file F for a stored path that is not F's own path.
C18_RelatedFilesDistinctAndCapped ==
    pc = "related" =>
        /\ Len(unique_files) <= 10
        /\ \A i, j \in 1..Len(unique_files) :
              i < j => /\ unique_files[i].path # unique_files[j].path
                       /\ FirstAppended(unique_files[i].path) < FirstAppended(unique_files[j].path)
        /\ \A i \in 1..Len(unique_files) :
              /\ unique_files[i] = related_files[FirstAppended(unique_files[i].path)]
              /\ \E c \in AnsweredGets :
                    LET own == request.file_changes[external[c].file].path
                    IN  /\ unique_files[i].path # own
                        /\ unique_files[i].reason = REASON_HEAD \o external[c].where[1]
                        /\ \E k \in 1..Len(external[c].results) :
                              /\ external[c].results[k] # NoMetadata
                              /\ StoredPath(external[c].results[k]) = unique_files[i].path

\* A call that returned 10 entries out of more than 10 paths met, after an
\* answer that held the path of the file it was asked for and a path twice
C18_Witness ==
    /\ pc = "related"
    /\ Len(unique_files) = 10
    /\ Cardinality({related_files[i].path : i \in 1..Len(related_files)}) > 10
    /\ Len(related_files) > Cardinality({related_files[i].path : i \in 1..Len(related_files)})
    /\ \E c \in AnsweredGets :
          \E k \in 1..Len(external[c].results) :
              /\ external[c].results[k] # NoMetadata
              /\ StoredPath(external[c].results[k]) = request.file_changes[external[c].file].path

\* What the answers to the calls of collection.get put into related_files
RECURSIVE RelatedPoolOf(_)
RelatedPoolOf(gets) ==
    IF gets = <<>> THEN <<>>
    ELSE ProcessMetadatas(gets[1].results, request.file_changes[gets[1].file].path,
                          gets[1].where[1])
         \o RelatedPoolOf(Tail(gets))

\* C19: retrieve_related_files never raises; a failure of the query of one
\* changed file leaves the entries found for the other files, which are
\* returned, and when the index cannot be opened the result is empty.
C19_RelatedNeverRaises ==
    /\ pc # "propagated"
    /\ pc \in {"for_file", "related"} =>
          related_files = RelatedPoolOf(SelectSeq(external,
                              LAMBDA c : c.call = "get" /\ c.outcome = "ok"))
    /\ pc = "related" =>
          /\ \A i \in 1..Len(related_files) :
                \E j \in 1..Len(unique_files) :
                    unique_files[j].path = related_files[i].path \/ Len(unique_files) = 10
          /\ external[1].outcome # "ok" => unique_files = <<>>
          /\ file_no = (IF external[1].outcome = "ok" THEN Len(request.file_changes) ELSE 0)

\* A returned call in which the query of the second file failed and the
\* entries found for the first and the third file were returned
C19_Witness ==
    /\ pc = "related"
    /\ Len(external) = 4
    /\ external[2].outcome = "ok"
    /\ external[3].outcome = "Exception"
    /\ external[4].outcome = "ok"
    /\ \E i, j \in 1..Len(unique_files) :
          /\ unique_files[i].reason = REASON_HEAD \o external[2].where[1]
          /\ unique_files[j].reason = REASON_HEAD \o external[4].where[1]
          /\ external[2].where[1] # external[4].where[1]

(***************************************************************************)
(* Concurrent calls of extract_code_units                                  *)
(*                                                                         *)
(* Each call has its own file_path, content, language and units; the       *)
(* calls of one process share the module-level dict _ts_parsers (line 19), *)
(* read at line 126 and written at line 151 with no lock. The steps of the *)
(* calls interleave.                                                       *)
(***************************************************************************)

\* How many calls are in progress at once
MaxInvocations == 2

\* A call that has just been entered
Entered(src) ==
    [pc |-> "extract_code_units", source |-> src, language |-> None, units |-> <<>>,
     parser |-> FALSE]

\* The calls are made on different files (path or content)
InitConcurrent ==
    /\ pc = "concurrent"
    /\ invocations \in {inv \in [1..MaxInvocations -> {Entered(src) : src \in SourceFiles}] :
                            \A i, j \in 1..MaxInvocations :
                                i # j => inv[i].source # inv[j].source}
    /\ accesses = {}
    /\ ExtractIdle
    /\ DiffIdle
    /\ RetrieveIdle
    /\ RelatedIdle

\* What the steps of a call leave alone
OnlyInvocationChanges ==
    UNCHANGED <<pc, diffVars, retrieveVars, relatedVars, source, language, units, events, calls>>

\* Lines 298-302 in call i
EnterCall ==
    \E i \in DOMAIN invocations :
        /\ invocations[i].pc = "extract_code_units"
        /\ invocations' = [invocations EXCEPT ![i].pc =
                              IF Strip(invocations[i].source.content) = <<>> THEN "extracted"
                              ELSE "detect_language"]
        /\ UNCHANGED <<_ts_parsers, accesses>>
        /\ OnlyInvocationChanges

\* Line 304 in call i
DetectLanguageOfCall ==
    \E i \in DOMAIN invocations :
        /\ invocations[i].pc = "detect_language"
        /\ \E lexer \in LexerOutcomes(invocations[i].source.path) :
              LET got == detect_language_from_path(lexer)
              IN  invocations' = [invocations EXCEPT
                      ![i].language = got.value,
                      ![i].pc = IF ~got.raised THEN "dispatch"
                                ELSE IF OuterHandlerCatches(lexer.raises) THEN "except"
                                ELSE "raised"]
        /\ UNCHANGED <<_ts_parsers, accesses>>
        /\ OnlyInvocationChanges

\* Lines 306-307 in call i
ExtractPythonInCall ==
    \E i \in DOMAIN invocations :
        /\ invocations[i].pc = "dispatch"
        /\ invocations[i].language = PYTHON
        /\ invocations' = [invocations EXCEPT
              ![i].units = extract_python_units(invocations[i].source.content,
                                                invocations[i].source.ast),
              ![i].pc = "fallback"]
        /\ UNCHANGED <<_ts_parsers, accesses>>
        /\ OnlyInvocationChanges

\* Neither branch of lines 306-312 is taken in call i
ExtractNothingInCall ==
    \E i \in DOMAIN invocations :
        /\ invocations[i].pc = "dispatch"
        /\ invocations[i].language # PYTHON
        /\ invocations[i].language \notin TreeSitterLanguages
        /\ invocations' = [invocations EXCEPT ![i].pc = "fallback"]
        /\ UNCHANGED <<_ts_parsers, accesses>>
        /\ OnlyInvocationChanges

\* Lines 126-127 in call i: the test `language in _ts_parsers` reads the
\* shared dict, and a parser found there is returned
LookUpParser ==
    \E i \in DOMAIN invocations :
        /\ invocations[i].pc = "dispatch"
        /\ invocations[i].language \in TreeSitterLanguages
        /\ LET lang == NormalizeLanguage(invocations[i].language)
           IN  /\ accesses' = accesses \cup {[invocation |-> i, op |-> "read", key |-> lang]}
               /\ invocations' = [invocations EXCEPT
                     ![i].language = lang,
                     ![i].parser = lang \in _ts_parsers,
                     ![i].pc = IF lang \in _ts_parsers THEN "parse" ELSE "create_parser"]
        /\ UNCHANGED _ts_parsers
        /\ OnlyInvocationChanges

\* Lines 129-155 in call i, after the test of line 126 found no parser: the
\* import and Parser(lang), and at line 151 the write to the shared dict
CreateParser ==
    \E i \in DOMAIN invocations :
        /\ invocations[i].pc = "create_parser"
        /\ \E init \in {"ok", "ImportError", "Exception"} :
              LET lang == invocations[i].language
                  got == _get_treesitter_parser(lang, _ts_parsers \ {lang}, init)
              IN  /\ _ts_parsers' = _ts_parsers \cup got.cache
                  /\ accesses' = IF lang \in got.cache
                                 THEN accesses \cup {[invocation |-> i, op |-> "write", key |-> lang]}
                                 ELSE accesses
                  /\ invocations' = [invocations EXCEPT ![i].parser = got.parser,
                                                        ![i].pc = "parse"]
        /\ OnlyInvocationChanges

\* Lines 202-293 in call i: the rest of extract_treesitter_units
ParseAndQuery ==
    \E i \in DOMAIN invocations :
        /\ invocations[i].pc = "parse"
        /\ \E parse \in {"ok", "Exception"}, query \in {"ok", "Exception"} :
              /\ ~invocations[i].parser => parse = "ok"
              /\ (~invocations[i].parser \/ parse # "ok") => query = "ok"
              /\ invocations' = [invocations EXCEPT
                    ![i].units = extract_treesitter_units(invocations[i].source.content,
                                     invocations[i].language, invocations[i].parser,
                                     [parse |-> parse, query |-> query],
                                     invocations[i].source.captures),
                    ![i].pc = "fallback"]
        /\ UNCHANGED <<_ts_parsers, accesses>>
        /\ OnlyInvocationChanges

\* Lines 314-321 and 336 in call i
FallbackAndReturnFromCall ==
    \E i \in DOMAIN invocations :
        /\ invocations[i].pc = "fallback"
        /\ invocations' = [invocations EXCEPT
              ![i].units = IF NeedsFallback(invocations[i].language, invocations[i].units)
                           THEN Append(invocations[i].units,
                                       FileUnit(invocations[i].source.path,
                                                invocations[i].source.content))
                           ELSE invocations[i].units,
              ![i].pc = "extracted"]
        /\ UNCHANGED <<_ts_parsers, accesses>>
        /\ OnlyInvocationChanges

\* Lines 323-336 in call i
ExceptAndReturnFromCall ==
    \E i \in DOMAIN invocations :
        /\ invocations[i].pc = "except"
        /\ invocations' = [invocations EXCEPT
              ![i].units = IF Strip(invocations[i].source.content) # <<>>
                           THEN Append(invocations[i].units,
                                       FileUnit(invocations[i].source.path,
                                                invocations[i].source.content))
                           ELSE invocations[i].units,
              ![i].pc = "extracted"]
        /\ UNCHANGED <<_ts_parsers, accesses>>
        /\ OnlyInvocationChanges

\* Any call takes its next step
NextConcurrent ==
    \/ EnterCall
    \/ DetectLanguageOfCall
    \/ ExtractPythonInCall
    \/ ExtractNothingInCall
    \/ LookUpParser
    \/ CreateParser
    \/ ParseAndQuery
    \/ FallbackAndReturnFromCall
    \/ ExceptAndReturnFromCall

SpecConcurrent == InitConcurrent /\ [][NextConcurrent]_vars

\* What extract_code_units can return for a file when no other call was made
\* before or is made meanwhile: _ts_parsers is empty when it is entered
ReturnedAlone(src) ==
    IF Strip(src.content) = <<>> THEN {<<>>}
    ELSE { LET got == detect_language_from_path(o.lexer)
               lang == NormalizeLanguage(got.value)
               found == IF got.value = PYTHON THEN extract_python_units(src.content, src.ast)
                        ELSE IF got.value \in TreeSitterLanguages
                        THEN extract_treesitter_units(src.content, lang,
                                 _get_treesitter_parser(lang, {}, o.init).parser,
                                 [parse |-> o.parse, query |-> o.query], src.captures)
                        ELSE <<>>
           IN  IF got.raised THEN <<FileUnit(src.path, src.content)>>
               ELSE IF NeedsFallback(got.value, found)
               THEN Append(found, FileUnit(src.path, src.content))
               ELSE found
           : o \in [lexer : LexerOutcomes(src.path), init : {"ok", "ImportError", "Exception"},
                    parse : {"ok", "Exception"}, query : {"ok", "Exception"}] }

\* Every call that returned, returned what it can return alone
ReturnsAsAlone ==
    \A i \in DOMAIN invocations :
        invocations[i].pc = "extracted" =>
            invocations[i].units \in ReturnedAlone(invocations[i].source)

\* C20: concurrent invocations on different inputs share no mutable state:
\* no invocation reads or writes a variable that another invocation writes,
\* and every invocation returns the same result as when it runs alone.
C20_NoSharedMutableState ==
    /\ \A a, b \in accesses :
          a.invocation # b.invocation => (a.op = "read" /\ b.op = "read")
    /\ ReturnsAsAlone

(***************************************************************************)
(* The order in which retrieve_similar_patterns visits the hunks           *)
(***************************************************************************)

\* The orders in which n hunks can be visited
VisitOrders(n) == {f \in [1..n -> 1..n] : \A i, j \in 1..n : i # j => f[i] # f[j]}

\* The answered queries, visited in the order f
Reordered(f) == [i \in 1..Len(AnsweredInOrder) |-> AnsweredInOrder[f[i]]]

\* Lines 102-115 on the pool of the queries: what the call returns when the
\* hunks are visited in this order and each is answered the same
ReturnedFor(queries) ==
    SliceTo(UniquePatterns(SortByScore(PoolOf(queries)), {}, <<>>, request.top_k * 3),
            request.top_k * 2)

\* The similarity scores of a result, in its order
ScoresOf(ps) == [i \in 1..Len(ps) |-> ps[i].similarity_score]

\* The entries of a result
EntriesOf(ps) == {ps[i] : i \in 1..Len(ps)}

\* Two different entries of the pool have the same score
PoolHasTies ==
    \E i, j \in 1..Len(patterns) :
        patterns[i] # patterns[j] /\ patterns[i].similarity_score = patterns[j].similarity_score

\* C21 as stated: permuting the order in which the hunks are processed, with
\* identical answers per hunk, changes the result at most in the relative
\* order of entries of equal score: every order returns the same set.
C21_SameEntriesInEveryOrder ==
    pc = "retrieved" =>
        \A f \in VisitOrders(Len(AnsweredInOrder)) :
            EntriesOf(ReturnedFor(Reordered(f))) = EntriesOf(similar)

\* C21, amended: every processing order returns the same sequence of
\* similarity scores, and, when no two different entries of the pool have
\* equal scores, the same result.
C21_SameScoresInEveryOrder ==
    pc = "retrieved" =>
        LET ties == PoolHasTies
        IN  \A f \in VisitOrders(Len(AnsweredInOrder)) :
                LET returned == ReturnedFor(Reordered(f))
                IN  IF ties THEN ScoresOf(returned) = ScoresOf(similar)
                    ELSE returned = similar

\* A returned call of which another order of the hunks changes the pool,
\* with no ties in it, and the result has two entries from different hunks
C21_Witness ==
    /\ pc = "retrieved"
    /\ ~PoolHasTies
    /\ Len(similar) >= 2
    /\ \E f \in VisitOrders(Len(AnsweredInOrder)) : PoolOf(Reordered(f)) # patterns

(***************************************************************************)
(* The calls retrieve_similar_patterns makes to its collaborators          *)
(***************************************************************************)

\* The calls a step adds to those made before
NewCalls == SubSeq(external', Len(external) + 1, Len(external'))

\* The step passes the hunk the loops stand at
PassesHunk == pc = "for_hunk" /\ pc' = "for_hunk" /\ hunk_no' # hunk_no

\* The hunk the loops stand at gets one embed call and, if and only if that
\* call succeeded, one query after it, asking for top_k results
OneEmbedThenQuery ==
    /\ Len(NewCalls) \in {1, 2}
    /\ NewCalls[1].call = "generate_embedding"
    /\ NewCalls[1].file = HunkAt.file /\ NewCalls[1].hunk = HunkAt.hunk
    /\ Len(NewCalls) = 2 <=> NewCalls[1].outcome = "ok"
    /\ Len(NewCalls) = 2 =>
          /\ NewCalls[2].call = "query"
          /\ NewCalls[2].file = HunkAt.file /\ NewCalls[2].hunk = HunkAt.hunk
          /\ NewCalls[2].n_results = request.top_k

\* The hunks are passed one at a time, in file order then hunk order, and
\* calls are made only while a hunk is passed
OneHunkAtATime ==
    /\ PassesHunk => hunk_no' = hunk_no + 1
    /\ (pc = "for_hunk" /\ ~PassesHunk) => external' = external

\* C22 as stated: the calls follow file order then hunk order; a hunk whose
\* added-line snippet has fewer than 50 characters gets no embed and no query
\* call, every other hunk gets exactly one embed call, followed by exactly
\* one query with n_results = top_k if and only if the embed call succeeded.
C22_CallsPerHunkBySnippetLength ==
    [][/\ OneHunkAtATime
       /\ PassesHunk =>
             IF Len(CodeSnippet(HunkContent)) < 50 THEN NewCalls = <<>>
             ELSE OneEmbedThenQuery]_vars

\* C22, amended: the length that decides is that of the snippet without its
\* leading and trailing whitespace.
C22_CallsPerHunkByStrippedLength ==
    [][/\ OneHunkAtATime
       /\ PassesHunk =>
             IF Len(Strip(CodeSnippet(HunkContent))) < 50 THEN NewCalls = <<>>
             ELSE OneEmbedThenQuery]_vars

\* A returned call on a file of four hunks: 49 added characters, 60, 52 of
\* which strip() leaves 47, and no added line; only the second was embedded
\* and queried
C22_Witness ==
    /\ pc = "retrieved"
    /\ hunk_no = 4
    /\ Len(request.file_changes) = 1
    /\ Len(CodeSnippet(request.file_changes[1].hunks[3].content)) >= 50
    /\ Len(external) = 4
    /\ external[3].call = "generate_embedding" /\ external[3].hunk = 2
    /\ external[4].call = "query" /\ external[4].hunk = 2
    /\ external[4].n_results = request.top_k

(***************************************************************************)
(* The content of the hunks parse_diff returns                             *)
(***************************************************************************)

\* The lines of a section that are hunk headers, in source order
HeaderPlaces(lines) ==
    LET headers == {i \in 1..Len(lines) : IsWellFormedHeader(lines[i])}
    IN  [h \in 1..Cardinality(headers) |->
            CHOOSE i \in headers : Cardinality({j \in headers : j < i}) = h - 1]

\* The last line before the next line starting with '@@' after line i, or
\* the last line of the section
LastLineOfHunk(lines, i) ==
    LET next == {j \in (i + 1)..Len(lines) : StartsWith(lines[j], AT2)}
    IN  IF next = {} THEN Len(lines) ELSE (CHOOSE j \in next : \A l \in next : j <= l) - 1

\* C23: each DiffHunk's content starts with its own header line and is made
\* of the section's lines, verbatim, from that header up to, but not
\* including, the next line starting with '@@' or the end of the section;
\* the hunks of a FileChange are in source order and their contents do not
\* overlap.
C23_HunkContentSpansToNextHeader ==
    pc = "returned" =>
        /\ Len(file_changes) = Len(ResolvableSections)
        /\ \A k \in 1..Len(file_changes) :
              LET lines == Split(ResolvableSections[k], NL)
                  places == HeaderPlaces(lines)
                  hunks == file_changes[k].hunks
              IN  /\ Len(hunks) = Len(places)
                  /\ \A h \in 1..Len(hunks) :
                        LET last == LastLineOfHunk(lines, places[h])
                        IN  /\ Split(hunks[h].content, NL) = SubSeq(lines, places[h], last)
                            /\ hunks[h].content = Join(SubSeq(lines, places[h], last), NL)
                            /\ h < Len(hunks) => last < places[h + 1]

\* A returned FileChange with two hunks, the first of more than one line
C23_Witness ==
    /\ pc = "returned"
    /\ \E k \in 1..Len(file_changes) :
          /\ Len(file_changes[k].hunks) >= 2
          /\ Len(Split(file_changes[k].hunks[1].content, NL)) >= 2
          /\ file_changes[k].hunks[1].content # file_changes[k].hunks[2].content

(***************************************************************************)
(* The units of the grammar-query path                                     *)
(***************************************************************************)

\* extract_treesitter_units has returned and the fallback is not yet applied
AfterGrammarQuery == pc = "fallback" /\ language \in TreeSitterLanguages

\* The capture names that stand for a kind
KindCaptures == {"func", "class", "interface", "type"}

\* The Node objects captured under "name" and under a kind
NamedNodes == {source.captures[c].node.id : c \in {d \in 1..Len(source.captures) :
                                                    source.captures[d].capture = "name"}}
KindNodes == {source.captures[c].node.id : c \in {d \in 1..Len(source.captures) :
                                                   source.captures[d].capture \in KindCaptures}}

\* The unit is that of a node captured under this name and this kind
IsUnitOfNode(unit, id) ==
    \E c, d \in 1..Len(source.captures) :
        /\ source.captures[c].node.id = id /\ source.captures[d].node.id = id
        /\ source.captures[c].capture = "name"
        /\ source.captures[d].capture \in KindCaptures
        /\ unit.name = source.captures[c].node.text
        /\ unit.type = (IF source.captures[d].capture = "func" THEN "function"
                        ELSE source.captures[d].capture)

\* C24: in the grammar-query path a unit is emitted for a node only if both
\* a name capture and a kind capture were recorded for that same node; a
\* node with only one of the two yields no unit, and every unit emitted has
\* a type among function, class, interface and type.
C24_UnitOnlyForNamedKindNode ==
    AfterGrammarQuery =>
        /\ \A u \in 1..Len(units) :
              /\ units[u].type \in {"function", "class", "interface", "type"}
              /\ \E id \in NamedNodes \cap KindNodes : IsUnitOfNode(units[u], id)
        /\ Len(units) <= Cardinality(NamedNodes \cap KindNodes)

\* The query ran on a parsed file and captured a node under a kind and
\* another under "name": neither gave a unit
C24_Witness ==
    /\ AfterGrammarQuery
    /\ language \in _ts_parsers
    /\ events = {}
    /\ KindNodes # {}
    /\ NamedNodes # {}
    /\ NamedNodes \cap KindNodes = {}
    /\ units = <<>>

\* With the registered queries the kind capture and the name capture of a
\* declaration are on different Node objects, so that no entry of node_info
\* has both and extract_treesitter_units returns no unit: the slice of line
\* 273, content[node.start_byte:node.end_byte], is never evaluated
GrammarQueryEmitsNothing == AfterGrammarQuery => units = <<>>

====
